---- MODULE Spec2Model ----
(***************************************************************************)
(* A model of the one-time-password engine of express-utils                *)
(* (src/core/rfc6238.ts) and of the primitives it is built from: the       *)
(* Base32 codec, the counter encoder, the HMAC digest, the token padder    *)
(* and the timing-safe string comparator; and of the helpers around it:    *)
(* Basic authorization headers (src/core/rfc7617.ts), the error handler    *)
(* (error/index.ts) and the EdDSA token verifier (src/core/rfc7519.ts).    *)
(*                                                                         *)
(* Strings are sequences of characters, a character is a one-letter TLA+   *)
(* string (KelvinSign stands for U+212A).  Byte buffers are sequences of   *)
(* numbers in 0..255.  A call that may throw yields a record               *)
(* [ok, ..., error]: ok = FALSE is the throw.                              *)
(***************************************************************************)
EXTENDS Integers, Sequences, FiniteSets, TLC

VARIABLES
    params,      \* the OTPParams object the calls of this behaviour pass
    hmac,        \* the platform HMAC under the behaviour's key: message -> digest sample
    now,         \* Date.now(), in milliseconds
    last,        \* the latest call of generateOwnOTP / verifyOwnTOTP and what it returned
    buf,         \* codec: the byte buffer handed to b32FromBuf
    encoded,     \* codec: what b32FromBuf returned for buf
    decoded,     \* codec: what b32ToBuf returned for encoded
    decodedBare, \* codec: what b32ToBuf returned for encoded without its padding
    util,        \* the latest call of a helper function: its arguments and its result
    jwt,         \* the verifyEdDSAJWT call in progress: where it is and how it settled
    http,        \* the request a controller or a middleware is handling: where it is, what it did
    server,      \* the Server instance and the process it runs in
    redis        \* the Redis wrapper: its client and the calls made on it

vars ==
    <<params, hmac, now, last, buf, encoded, decoded, decodedBare, util, jwt,
      http, server, redis>>

otpVars == <<params, hmac, now, last>>
codecVars == <<buf, encoded, decoded, decodedBare>>
webVars == <<http, server, redis>>
helperVars == <<util, jwt, webVars>>

----------------------------------------------------------------------------
(* Bounds of the model.                                                    *)

MaxWindow == 1      \* verifyOwnTOTP is called with window in 0..MaxWindow
MaxTicks == 1       \* the clock advances at most this many times
MaxBytes == 3       \* the codec is given buffers of 0..MaxBytes bytes
OraclePeriod == 3   \* the HMAC is arbitrary on this many counters in a row
MaxText == 3        \* b32ToBuf is given strings of 0..MaxText characters
MaxEncodeBytes == 11 \* b32FromBuf is given buffers of 0..MaxEncodeBytes bytes
MaxSmallNumber == 40 \* numberToBuf is given every number in 0..MaxSmallNumber

StartMs == 60000    \* Date.now() at the first call
TickMs == 30000     \* one advance of the clock
MaxWrappers == 3    \* Redis wrappers constructed
MaxGetClient == 4   \* getClient calls on one wrapper
MaxConnections == 2 \* connections open on the HTTP server at a time
MaxEvents == 3      \* signals and unhandled rejections the process receives

----------------------------------------------------------------------------
(* Characters.                                                             *)

Range(s) == {s[i] : i \in DOMAIN s}

IndexOf(s, x) == CHOOSE i \in DOMAIN s : s[i] = x

DigitChars == <<"0", "1", "2", "3", "4", "5", "6", "7", "8", "9">>

UpperChars ==
    <<"A", "B", "C", "D", "E", "F", "G", "H", "I", "J", "K", "L", "M",
      "N", "O", "P", "Q", "R", "S", "T", "U", "V", "W", "X", "Y", "Z">>

\* U+212A KELVIN SIGN: one UTF-16 code unit, canonically equivalent to "K".
KelvinSign == "U+212A"

PadChar == "="

\* The RFC 4648 alphabet of the codec: A-Z then 2-7.
ALPHABET == UpperChars \o SubSeq(DigitChars, 3, 8)

AlphabetSet == Range(ALPHABET)

\* The 5-bit value of each character of the alphabet.
AlphabetValue == [ch \in AlphabetSet |-> IndexOf(ALPHABET, ch) - 1]

LowerChars ==
    <<"a", "b", "c", "d", "e", "f", "g", "h", "i", "j", "k", "l", "m",
      "n", "o", "p", "q", "r", "s", "t", "u", "v", "w", "x", "y", "z">>

\* Characters outside ASCII, each one UTF-16 code unit: U+00E9 is e with an
\* acute accent, U+0301 the combining acute accent, U+D800 a high surrogate
\* with no low surrogate after it, U+FFFD the replacement character.
SmallEAcute == "U+00E9"
CombiningAcute == "U+0301"
LoneSurrogate == "U+D800"
ReplacementChar == "U+FFFD"

\* The ASCII punctuation of the model with its code.
PunctuationCode ==
    (" " :> 32) @@ ("!" :> 33) @@ ("#" :> 35) @@ ("%" :> 37) @@ ("&" :> 38)
      @@ ("+" :> 43) @@ ("-" :> 45) @@ ("/" :> 47) @@ (":" :> 58)
      @@ ("=" :> 61) @@ ("?" :> 63) @@ ("_" :> 95)

Chars ==
    Range(DigitChars) \cup Range(UpperChars) \cup Range(LowerChars)
      \cup DOMAIN PunctuationCode
      \cup {KelvinSign, SmallEAcute, CombiningAcute, LoneSurrogate, ReplacementChar}

\* The UTF-8 bytes of each character.  A surrogate on its own has no UTF-8
\* form: Buffer.from writes the bytes of U+FFFD for it.
Utf8 ==
    [ch \in Chars |->
        IF ch \in Range(DigitChars) THEN <<47 + IndexOf(DigitChars, ch)>>
        ELSE IF ch \in Range(UpperChars) THEN <<64 + IndexOf(UpperChars, ch)>>
        ELSE IF ch \in Range(LowerChars) THEN <<96 + IndexOf(LowerChars, ch)>>
        ELSE IF ch \in DOMAIN PunctuationCode THEN <<PunctuationCode[ch]>>
        ELSE IF ch = SmallEAcute THEN <<195, 169>>
        ELSE IF ch = CombiningAcute THEN <<204, 129>>
        ELSE IF ch = KelvinSign THEN <<226, 132, 170>>
        ELSE <<239, 191, 189>>]

\* Buffer.from(string): the UTF-8 bytes of the string.
Utf8Char(ch) == Utf8[ch]

RECURSIVE BufferFrom(_)
BufferFrom(str) ==
    IF str = <<>> THEN <<>>
    ELSE Utf8Char(Head(str)) \o BufferFrom(Tail(str))

\* String.prototype.normalize(): NFC.  ASCII is unchanged; the Kelvin sign
\* is replaced by the letter K, and the letter e with the combining acute
\* accent after it by U+00E9.  (The strings of the model have the combining
\* accent after no other letter.)
NormalizeChar(ch) == IF ch = KelvinSign THEN "K" ELSE ch

RECURSIVE Compose(_)
Compose(str) ==
    IF Len(str) < 2 THEN str
    ELSE IF str[1] = "e" /\ str[2] = CombiningAcute
         THEN <<SmallEAcute>> \o Compose(SubSeq(str, 3, Len(str)))
         ELSE <<str[1]>> \o Compose(Tail(str))

normalize(str) == Compose([i \in DOMAIN str |-> NormalizeChar(str[i])])

----------------------------------------------------------------------------
(* Bit operations of JavaScript on the values the engine gives them.       *)

RECURSIVE BitAnd(_, _)
BitAnd(a, b) ==
    IF a = 0 \/ b = 0 THEN 0
    ELSE (a % 2) * (b % 2) + 2 * BitAnd(a \div 2, b \div 2)

\* byte << 24 as a signed 32-bit integer: a byte of 128 or more sets the
\* sign bit.
ShiftLeft24(b) == IF b >= 128 THEN (b - 256) * 16777216 ELSE b * 16777216

\* a % m of JavaScript for m > 0: the result has the sign of a.
JSRem(a, m) == IF a >= 0 \/ a % m = 0 THEN a % m ELSE (a % m) - m

----------------------------------------------------------------------------
(* The Base32 codec (core/util/base32).                                    *)

\* The symbols of the bytes from index i on; `value` holds the `bits` bits
\* (fewer than 5) read and not yet written.
RECURSIVE EncodeFrom(_, _, _, _)
EncodeFrom(b, i, value, bits) ==
    IF i > Len(b)
    THEN IF bits > 0 THEN <<ALPHABET[((value * (2 ^ (5 - bits))) % 32) + 1]>> ELSE <<>>
    ELSE LET v == value * 256 + b[i]
             n == bits + 8
         IN IF n >= 10
            THEN <<ALPHABET[((v \div (2 ^ (n - 5))) % 32) + 1],
                   ALPHABET[((v \div (2 ^ (n - 10))) % 32) + 1]>>
                     \o EncodeFrom(b, i + 1, v % (2 ^ (n - 10)), n - 10)
            ELSE <<ALPHABET[((v \div (2 ^ (n - 5))) % 32) + 1]>>
                     \o EncodeFrom(b, i + 1, v % (2 ^ (n - 5)), n - 5)

\* b32FromBuf that forgets the bits left over after the last whole group.
b32FromBuf_DropTail(b) ==
    LET str == SubSeq(EncodeFrom(b, 1, 0, 0), 1, (8 * Len(b)) \div 5)
    IN str \o [i \in 1..((8 - (Len(str) % 8)) % 8) |-> PadChar]

\* b32FromBuf that leaves the "=" padding out.
b32FromBuf_NoPadding(b) == EncodeFrom(b, 1, 0, 0)

\* b32FromBuf: the bytes in 5-bit groups over ALPHABET, the last group
\* filled with zero bits, then "=" up to a multiple of 8 characters.
b32FromBuf(b) ==
    LET str == EncodeFrom(b, 1, 0, 0)
    IN str \o [i \in 1..((8 - (Len(str) % 8)) % 8) |-> PadChar]

\* str.replace(/=+$/, ''): the string without its trailing padding.
RECURSIVE StripPadding(_)
StripPadding(str) ==
    IF str # <<>> /\ str[Len(str)] = PadChar
        THEN StripPadding(SubSeq(str, 1, Len(str) - 1))
        ELSE str

\* The bytes of the symbols from index i on; `value` holds the `bits` bits
\* (fewer than 8) read and not yet written.  Bits left at the end are dropped,
\* so n symbols give floor(5n / 8) bytes.
RECURSIVE DecodeFrom(_, _, _, _)
DecodeFrom(str, i, value, bits) ==
    IF i > Len(str) THEN <<>>
    ELSE LET v == value * 32 + AlphabetValue[str[i]]
             n == bits + 5
         IN IF n >= 8
            THEN <<(v \div (2 ^ (n - 8))) % 256>>
                     \o DecodeFrom(str, i + 1, v % (2 ^ (n - 8)), n - 8)
            ELSE DecodeFrom(str, i + 1, v, n)

\* b32ToBuf that looks the padding up in ALPHABET like any character.
b32ToBuf_KeepPadding(str) ==
    IF \E i \in DOMAIN str : str[i] \notin AlphabetSet
    THEN [ok |-> FALSE, bytes |-> <<>>,
          error |-> "TypeError: b32ToBuf: Invalid character found"]
    ELSE [ok |-> TRUE, bytes |-> DecodeFrom(str, 1, 0, 0), error |-> ""]

\* b32ToBuf that skips the characters it does not know.
b32ToBuf_SkipInvalid(str) ==
    [ok |-> TRUE,
     bytes |-> DecodeFrom(SelectSeq(str, LAMBDA ch : ch \in AlphabetSet), 1, 0, 0),
     error |-> ""]

\* b32ToBuf: trailing "=" dropped, every character looked up in ALPHABET
\* (a TypeError for one that is not there), the 5-bit values joined into
\* bytes.
b32ToBuf(str) ==
    LET cstr == StripPadding(str)
    IN IF \E i \in DOMAIN cstr : cstr[i] \notin AlphabetSet
       THEN [ok |-> FALSE, bytes |-> <<>>,
             error |-> "TypeError: b32ToBuf: Invalid character found"]
       ELSE [ok |-> TRUE, bytes |-> DecodeFrom(cstr, 1, 0, 0), error |-> ""]

----------------------------------------------------------------------------
(* The codec's calls.                                                      *)

ByteSamples == {0, 31, 72, 255}

RECURSIVE BuffersUpTo(_)
BuffersUpTo(n) ==
    IF n = 0 THEN {<<>>}
    ELSE LET shorter == BuffersUpTo(n - 1)
         IN shorter \cup {Append(b, x) : b \in {s \in shorter : Len(s) = n - 1},
                                          x \in ByteSamples}

NoString == <<"-">>
NoUtil == [op |-> "none"]
NoJwt == [pc |-> "idle"]
NoHttp == [pc |-> "idle"]

\* new Server(options), before start() is called: nothing registered on the
\* process, nothing called.
NoServer ==
    [pc |-> "constructed", infrastructureCheck |-> "absent",
     extraStartupChecks |-> "absent", log |-> <<>>, listeners |-> {},
     listening |-> FALSE, connections |-> 0, closing |-> FALSE,
     closeCallbacks |-> <<>>, closeFired |-> FALSE, received |-> <<>>,
     shutdowns |-> <<>>, exit |-> [called |-> FALSE, code |-> 0, cause |-> "none"]]

\* The Redis wrappers of the model, each constructed with its host, password
\* and port; two of them share one configuration.
Wrappers == 1..MaxWrappers

RedisOptions(w) ==
    [host |-> IF w % 2 = 1 THEN "cache" ELSE "queue",
     password |-> IF w % 2 = 1 THEN "secret 1" ELSE "secret 2",
     port |-> 6379 + ((w + 1) % 2)]

\* The clientInstance field before it is assigned.
NoClient == [defined |-> FALSE]

\* new Redis(host, password, port) for every wrapper: no client yet, no
\* call of getClient made.
NoRedis ==
    [instances |-> [w \in Wrappers |-> [options |-> RedisOptions(w),
                                        clientInstance |-> NoClient,
                                        returned |-> <<>>]],
     clients |-> <<>>]
NoBytes == [ok |-> FALSE, bytes |-> <<>>, error |-> "not called"]

EncodeCall ==
    /\ encoded = NoString
    /\ encoded' = b32FromBuf(buf)
    /\ UNCHANGED <<buf, decoded, decodedBare, otpVars, helperVars>>

DecodeCall ==
    /\ encoded # NoString
    /\ decoded = NoBytes
    /\ decoded' = b32ToBuf(encoded)
    /\ UNCHANGED <<buf, encoded, decodedBare, otpVars, helperVars>>

DecodeBareCall ==
    /\ encoded # NoString
    /\ decodedBare = NoBytes
    /\ decodedBare' = b32ToBuf(StripPadding(encoded))
    /\ UNCHANGED <<buf, encoded, decoded, otpVars, helperVars>>

----------------------------------------------------------------------------
(* The counter encoder, the HMAC digest and the token padder               *)
(* (core/util/number-to-buf, core/util/hmac-digest, core/util/pad).        *)

\* floor(n / 256^j)
RECURSIVE ShiftRightBytes(_, _)
ShiftRightBytes(n, j) == IF j = 0 THEN n ELSE ShiftRightBytes(n \div 256, j - 1)

\* The 8 bytes with the low byte first.
numberToBufParts_LittleEndian(hi, lo) ==
    [k \in 1..8 |->
        IF k <= 3 THEN ShiftRightBytes(lo, k - 1) % 256
        ELSE ShiftRightBytes(hi, k - 4) % 256]

\* The number hi * 2^24 + lo (0 <= lo < 2^24) as 8 bytes, high byte first:
\* five bytes of hi, then three bytes of lo.
numberToBufParts(hi, lo) ==
    [k \in 1..8 |->
        IF k <= 5 THEN ShiftRightBytes(hi, 5 - k) % 256
        ELSE ShiftRightBytes(lo, 8 - k) % 256]

\* numberToBuf: n as 8 bytes, high byte first.
numberToBuf(n) == numberToBufParts(n \div 16777216, n % 16777216)

SupportedAlgorithms == {"SHA1", "SHA256", "SHA512"}

\* The byte length of an HMAC digest.
DigestLength(algorithm) ==
    CASE algorithm = "SHA1" -> 20
      [] algorithm = "SHA256" -> 32
      [] algorithm = "SHA512" -> 64

\* A digest sample names what dynamic truncation reads of a digest: the low
\* nibble (off) and the high nibble (hi) of its last byte, and the four
\* bytes (w) that start at index off.
Sample(off, hi, w) == [off |-> off, hi |-> hi, w |-> w]

Filler(i) == (i * 37 + 11) % 256

\* The digest of the given length that a sample stands for.
MakeDigest(length, s) ==
    [i \in 1..length |->
        IF i = length THEN 16 * s.hi + s.off
        ELSE IF i - 1 \in s.off..(s.off + 3) THEN s.w[i - s.off]
        ELSE Filler(i)]

\* hmacDigest: the platform's HMAC-<algorithm> of the message under the key.
\* The platform function is deterministic and otherwise arbitrary: the
\* behaviour fixes it (hmac) for the one key it uses.  An algorithm the
\* platform does not know is an error.
hmacDigest(algorithm, key, message) ==
    IF algorithm \notin SupportedAlgorithms
    THEN [ok |-> FALSE, bytes |-> <<>>, error |-> "ConfigurationError"]
    ELSE [ok |-> TRUE,
          bytes |-> MakeDigest(DigestLength(algorithm), hmac[<<key, message>>]),
          error |-> ""]

\* The decimal representation of an integer.
RECURSIVE DecimalString(_)
DecimalString(n) ==
    IF n < 0 THEN <<"-">> \o DecimalString(-n)
    ELSE IF n < 10 THEN <<DigitChars[n + 1]>>
    ELSE DecimalString(n \div 10) \o <<DigitChars[(n % 10) + 1]>>

\* pad: the decimal representation of num, "0" added on the left up to
\* `digits` characters.
pad(num, digits) ==
    LET str == DecimalString(num)
    IN [i \in 1..(digits - Len(str)) |-> "0"] \o str

----------------------------------------------------------------------------
(* timingSafeStringCompare (util/timing-safe-string-compare).              *)

\* A comparison of the bytes of the strings as they are given.
timingSafeStringCompare_NoNormalize(firstString, secondString) ==
    BufferFrom(firstString) = BufferFrom(secondString)

\* crypto.timingSafeEqual throws a RangeError for buffers of different byte
\* lengths; the catch turns the throw into false.
timingSafeStringCompare(firstString, secondString) ==
    LET a == BufferFrom(normalize(firstString))
        b == BufferFrom(normalize(secondString))
    IN IF Len(a) # Len(b) THEN FALSE ELSE a = b

----------------------------------------------------------------------------
(* generateOwnOTP (core/rfc6238.ts).                                       *)

\* b32ToBuf(b32FromBuf(Buffer.from(secret))): the key handed to the HMAC.
SecretKey(secret) == b32ToBuf(b32FromBuf(BufferFrom(secret)))

\* digest[i] inside a bit operation: an index past the end reads undefined,
\* which the bit operation takes as 0.
DigestAt(digest, i, mask) ==
    IF i < Len(digest) THEN BitAnd(digest[i + 1], mask) ELSE 0

\* The offset taken from five bits of the last byte.
TruncOffset_FiveBits(digest) == BitAnd(digest[Len(digest)], 31)

\* digest[digest.byteLength - 1] & 15
TruncOffset(digest) == BitAnd(digest[Len(digest)], 15)

\* The four bytes joined with the sign bit left in place.
DynamicTruncate_NoSignMask(digest, offset) ==
    ShiftLeft24(DigestAt(digest, offset, 255))
        + DigestAt(digest, offset + 1, 255) * 65536
        + DigestAt(digest, offset + 2, 255) * 256
        + DigestAt(digest, offset + 3, 255)

\* ((digest[offset] & 127) << 24) | ((digest[offset + 1] & 255) << 16)
\*   | ((digest[offset + 2] & 255) << 8) | (digest[offset + 3] & 255),
\* a signed 32-bit integer; the four parts share no bit, so | adds them.
DynamicTruncate(digest, offset) ==
    ShiftLeft24(DigestAt(digest, offset, 127))
        + DigestAt(digest, offset + 1, 255) * 65536
        + DigestAt(digest, offset + 2, 255) * 256
        + DigestAt(digest, offset + 3, 255)

\* The 31-bit number handed on without the remainder being taken.
Reduce_None(binary, digits) == binary

\* binary % 10 ** digits.  From 10 digits on, 10 ** digits is above every
\* 32-bit integer and the remainder is the number itself.
Reduce(binary, digits) ==
    IF digits >= 10 THEN binary ELSE JSRem(binary, 10 ^ digits)

\* The OTPParams objects of the model.
Issuer == <<"A", "P", "P">>
Label == <<"B", "O", "B">>

Base32Secret == <<"J", "B", "S", "W">>    \* a secret over the Base32 alphabet
OtherSecret == <<"J", "1">>               \* "1" is not in the alphabet

OTPParams(algorithm, digits, period, secret) ==
    [issuer |-> Issuer, label |-> Label, algorithm |-> algorithm,
     digits |-> digits, period |-> period, secret |-> secret]

SupportedDigits == 6..10

\* Parameters as the data model asks for them.
ValidParams(p) ==
    /\ p.algorithm \in SupportedAlgorithms
    /\ p.digits \in SupportedDigits
    /\ p.period > 0

\* The parameter objects of the behaviours whose HMAC is arbitrary.
MixedParams ==
    {OTPParams("SHA1", 6, 30, Base32Secret),
     OTPParams("SHA256", 8, 60, OtherSecret),
     OTPParams("SHA512", 10, 30, OtherSecret)}

\* The parameter objects of the behaviours whose HMAC returns one digest:
\* every algorithm with every digit count.
GridParams ==
    {OTPParams(a, d, 30, Base32Secret) : a \in SupportedAlgorithms, d \in SupportedDigits}

\* Parameter objects the data model rules out.
InvalidParams ==
    {OTPParams("MD5", 6, 30, Base32Secret),
     OTPParams("SHA1", 5, 30, Base32Secret),
     OTPParams("SHA1", 11, 30, Base32Secret),
     OTPParams("SHA1", 6, -30, Base32Secret)}

\* The text of a string literal of the code.
Text(literal) ==
    CASE literal = "otpauth://totp/" ->
             <<"o", "t", "p", "a", "u", "t", "h", ":", "/", "/", "t", "o", "t", "p", "/">>
      [] literal = "?issuer=" -> <<"?", "i", "s", "s", "u", "e", "r", "=">>
      [] literal = "&issuer=" -> <<"&", "i", "s", "s", "u", "e", "r", "=">>
      [] literal = "?secret=" -> <<"?", "s", "e", "c", "r", "e", "t", "=">>
      [] literal = "&secret=" -> <<"&", "s", "e", "c", "r", "e", "t", "=">>
      [] literal = "&algorithm=" ->
             <<"&", "a", "l", "g", "o", "r", "i", "t", "h", "m", "=">>
      [] literal = "&digits=" -> <<"&", "d", "i", "g", "i", "t", "s", "=">>
      [] literal = "&period=" -> <<"&", "p", "e", "r", "i", "o", "d", "=">>
      [] literal = "SHA1" -> <<"S", "H", "A", "1">>
      [] literal = "SHA256" -> <<"S", "H", "A", "2", "5", "6">>
      [] literal = "SHA512" -> <<"S", "H", "A", "5", "1", "2">>
      [] literal = "MD5" -> <<"M", "D", "5">>
      [] literal = "Basic " -> <<"B", "a", "s", "i", "c", " ">>

HexChars == DigitChars \o SubSeq(UpperChars, 1, 6)

\* %XX for each byte.
RECURSIVE PercentEncode(_)
PercentEncode(bytes) ==
    IF bytes = <<>> THEN <<>>
    ELSE <<"%", HexChars[(Head(bytes) \div 16) + 1], HexChars[(Head(bytes) % 16) + 1]>>
             \o PercentEncode(Tail(bytes))

Alphanumerics == Range(DigitChars) \cup Range(UpperChars) \cup Range(LowerChars)

\* The characters encodeURI leaves as they are: letters, digits, the
\* unreserved marks and the reserved characters ; / ? : @ & = + $ , #
UriKept == Alphanumerics \cup {"!", "#", "&", "+", "-", "/", ":", "=", "?", "_"}

\* encodeURI(uri): every other character becomes the %XX of its UTF-8
\* bytes; a surrogate on its own makes it throw a URIError.
RECURSIVE EncodeURIText(_)
EncodeURIText(str) ==
    IF str = <<>> THEN <<>>
    ELSE (IF Head(str) \in UriKept THEN <<Head(str)>>
          ELSE PercentEncode(Utf8Char(Head(str)))) \o EncodeURIText(Tail(str))

encodeURI(str) ==
    IF \E i \in DOMAIN str : str[i] = LoneSurrogate
    THEN [ok |-> FALSE, text |-> <<>>, error |-> "URIError: URI malformed"]
    ELSE [ok |-> TRUE, text |-> EncodeURIText(str), error |-> ""]

\* The template literal of the uri.
UriTemplate(p) ==
    Text("otpauth://totp/") \o p.issuer \o <<":">> \o p.label
      \o Text("?issuer=") \o p.issuer \o Text("&secret=") \o p.secret
      \o Text("&algorithm=") \o Text(p.algorithm)
      \o Text("&digits=") \o DecimalString(p.digits)
      \o Text("&period=") \o DecimalString(p.period)

\* Parameter objects whose issuer and label hold characters that a URI
\* reserves or cannot hold.
UriNames ==
    {Issuer, <<"A", "&", "B">>, <<"A", " ", "B">>, <<"1", "%">>, <<"A", "?", "#">>,
     <<SmallEAcute>>, <<LoneSurrogate>>}

UriParams ==
    {[OTPParams("SHA1", 6, 30, secret) EXCEPT !.issuer = i, !.label = l] :
       i \in UriNames, l \in {Label, <<"B", "=", "/">>},
       secret \in {Base32Secret, <<"J", "+", "1">>}}

\* encodeURI(uri) for the parameter objects of the model, worked out once.
KnownParams == MixedParams \cup GridParams \cup InvalidParams \cup UriParams

EncodedUri == [p \in KnownParams |-> encodeURI(UriTemplate(p))]

EncodedUriOf(p) ==
    IF p \in KnownParams THEN EncodedUri[p] ELSE encodeURI(UriTemplate(p))

Thrown(error) ==
    [ok |-> FALSE, error |-> error, token |-> <<>>, uri |-> <<>>,
     digest |-> <<>>, offset |-> 0, binary |-> 0, otp |-> 0]

\* Math.floor(Date.now() / 1000 / period), for a period other than 0.
CurrentCounter(nowMs, period) ==
    IF period > 0 THEN nowMs \div (1000 * period)
    ELSE (-nowMs) \div (1000 * (-period))

\* generateOwnOTP that hashes the counter of the clock, not the one given.
generateOwnOTP_Clock(counter, p) ==
    LET b32Secret == SecretKey(p.secret)
        epoch == numberToBuf(CurrentCounter(now, p.period))
        hashed == hmacDigest(p.algorithm, b32Secret.bytes, epoch)
    IN IF ~b32Secret.ok THEN Thrown(b32Secret.error)
       ELSE IF ~hashed.ok THEN Thrown(hashed.error)
       ELSE LET digest == hashed.bytes
                offset == TruncOffset(digest)
                binary == DynamicTruncate(digest, offset)
                otp == Reduce(binary, p.digits)
                uri == EncodedUriOf(p)
            IN IF ~uri.ok THEN Thrown(uri.error)
               ELSE [ok |-> TRUE, error |-> "", token |-> pad(otp, p.digits),
                     uri |-> uri.text, digest |-> digest, offset |-> offset,
                     binary |-> binary, otp |-> otp]

\* generateOwnOTP(counter, params): the token and the uri, with the values
\* the call computed on its way (the digest, the truncation offset, the 31-bit
\* number and the number handed to pad).
generateOwnOTP(counter, p) ==
    LET b32Secret == SecretKey(p.secret)
        epoch == numberToBuf(counter)
        hashed == hmacDigest(p.algorithm, b32Secret.bytes, epoch)
    IN IF ~b32Secret.ok THEN Thrown(b32Secret.error)
       ELSE IF ~hashed.ok THEN Thrown(hashed.error)
       ELSE LET digest == hashed.bytes
                offset == TruncOffset(digest)
                binary == DynamicTruncate(digest, offset)
                otp == Reduce(binary, p.digits)
                uri == EncodedUriOf(p)
            IN IF ~uri.ok THEN Thrown(uri.error)
               ELSE [ok |-> TRUE, error |-> "", token |-> pad(otp, p.digits),
                     uri |-> uri.text, digest |-> digest, offset |-> offset,
                     binary |-> binary, otp |-> otp]

----------------------------------------------------------------------------
(* verifyOwnTOTP (core/rfc6238.ts).                                        *)

\* A loop that starts one counter back whatever the window is.
WindowFirst_OneBack(counter, window) == counter - 1

\* let i = counter - window
WindowFirst(counter, window) == counter - window

\* A loop that stops before the last counter (i < counter + window).
WindowLast_Exclusive(counter, window) == counter + window - 1

\* i <= counter + window
WindowLast(counter, window) == counter + window

\* A loop that goes on to the last counter after a match.
RECURSIVE VerifyLoop_KeepGoing(_, _, _, _, _)
VerifyLoop_KeepGoing(i, lastCounter, otp, p, tried) ==
    IF i > lastCounter
    THEN [ok |-> TRUE, error |-> "",
          valid |-> \E k \in DOMAIN tried :
                       timingSafeStringCompare(otp, generateOwnOTP(tried[k], p).token),
          tried |-> tried]
    ELSE VerifyLoop_KeepGoing(i + 1, lastCounter, otp, p, Append(tried, i))

\* The loop from counter i on: `tried` are the counters a token was
\* generated for so far.
RECURSIVE VerifyLoop(_, _, _, _, _)
VerifyLoop(i, lastCounter, otp, p, tried) ==
    IF i > lastCounter
    THEN [ok |-> TRUE, error |-> "", valid |-> FALSE, tried |-> tried]
    ELSE LET generated == generateOwnOTP(i, p)
         IN IF ~generated.ok
            THEN [ok |-> FALSE, error |-> generated.error, valid |-> FALSE,
                  tried |-> Append(tried, i)]
            ELSE IF timingSafeStringCompare(otp, generated.token)
            THEN [ok |-> TRUE, error |-> "", valid |-> TRUE,
                  tried |-> Append(tried, i)]
            ELSE VerifyLoop(i + 1, lastCounter, otp, p, Append(tried, i))

verifyOwnTOTP(otp, window, p, nowMs) ==
    IF Len(otp) # p.digits
    THEN [ok |-> TRUE, error |-> "", valid |-> FALSE, tried |-> <<>>]
    ELSE LET counter == CurrentCounter(nowMs, p.period)
         IN VerifyLoop(WindowFirst(counter, window), WindowLast(counter, window),
                       otp, p, <<>>)

----------------------------------------------------------------------------
(* The calls of the engine.                                                *)

\* The digests the arbitrary HMAC chooses among, and all the digests of the
\* model.  0x80 0x01 0xE2 0x40 reads 123456 once the top bit is cleared.
AllSamples ==
    <<Sample(0, 0, <<0, 0, 0, 0>>),
      Sample(10, 5, <<128, 1, 226, 64>>),
      Sample(15, 1, <<255, 255, 255, 255>>),
      Sample(15, 15, <<127, 255, 255, 255>>),
      Sample(3, 8, <<18, 52, 86, 120>>),
      Sample(7, 0, <<0, 0, 0, 9>>),
      Sample(12, 3, <<59, 154, 202, 0>>),
      Sample(1, 10, <<187, 154, 201, 255>>)>>

OracleSamples == {AllSamples[1], AllSamples[2]}

SetMin(S) == CHOOSE x \in S : \A y \in S : x <= y

SetMax(S) == CHOOSE x \in S : \A y \in S : x >= y

ClockValues == {StartMs + k * TickMs : k \in 0..MaxTicks}

\* The counters a call of the behaviour can ask a token for.
Counters(p) ==
    LET current == {CurrentCounter(t, p.period) : t \in ClockValues}
    IN (SetMin(current) - MaxWindow)..(SetMax(current) + MaxWindow)

\* The messages the HMAC is asked about, under the key of p.
Messages(p) == {<<SecretKey(p.secret).bytes, numberToBuf(c)>> : c \in Counters(p)}

NoCall ==
    [op |-> "none", counter |-> 0, otp |-> <<>>, window |-> 0, at |-> 0,
     ok |-> TRUE, error |-> "", token |-> <<>>, uri |-> <<>>, valid |-> FALSE,
     digest |-> <<>>, offset |-> 0, binary |-> 0, code |-> 0, tried |-> <<>>]

GenerateCall ==
    \E counter \in Counters(params) :
        \E r \in {generateOwnOTP(counter, params)} :
           /\ last' = [NoCall EXCEPT !.op = "generateOwnOTP", !.counter = counter,
                           !.at = now, !.ok = r.ok, !.error = r.error,
                           !.token = r.token, !.uri = r.uri,
                           !.digest = r.digest,
                           !.offset = r.offset, !.binary = r.binary,
                           !.code = r.otp]
           /\ UNCHANGED <<params, hmac, now, codecVars, helperVars>>

\* The token of a counter, as generateOwnOTP returns it now.
TokenOf(counter) == generateOwnOTP(counter, params).token

Altered(token) ==
    IF token = <<>> THEN <<"0">>
    ELSE [token EXCEPT ![Len(token)] = IF @ = "0" THEN "1" ELSE "0"]

\* The strings verifyOwnTOTP is called with: the tokens of the counters
\* around the current one, and strings that are nobody's token.
TokenInputs ==
    LET c == CurrentCounter(now, params.period)
        mine == TokenOf(c)
    IN {TokenOf(i) : i \in (c - MaxWindow)..(c + MaxWindow)}
           \cup {<<>>, Altered(mine), [i \in 1..params.digits |-> KelvinSign]}

VerifyCall ==
    \E otp \in TokenInputs, window \in 0..MaxWindow :
        \E r \in {verifyOwnTOTP(otp, window, params, now)} :
           /\ last' = [NoCall EXCEPT !.op = "verifyOwnTOTP",
                           !.counter = CurrentCounter(now, params.period),
                           !.otp = otp, !.window = window, !.at = now,
                           !.ok = r.ok, !.error = r.error, !.valid = r.valid,
                           !.tried = r.tried]
           /\ UNCHANGED <<params, hmac, now, codecVars, helperVars>>

\* Time passes between two calls.
Tick ==
    /\ now + TickMs \in ClockValues
    /\ now' = now + TickMs
    /\ UNCHANGED <<params, hmac, last, codecVars, helperVars>>

----------------------------------------------------------------------------
(* Specifications.                                                         *)

IdleCodec ==
    /\ buf = <<>>
    /\ encoded = NoString
    /\ decoded = NoBytes
    /\ decodedBare = NoBytes

IdleHelpers ==
    /\ util = NoUtil
    /\ jwt = NoJwt
    /\ http = NoHttp
    /\ server = NoServer
    /\ redis = NoRedis

IdleEngine ==
    /\ now = StartMs
    /\ last = NoCall

\* The counter a message encodes.
CounterOf(p, m) == CHOOSE c \in Counters(p) : m[2] = numberToBuf(c)

\* An arbitrary HMAC: any digest for each of OraclePeriod counters in a row,
\* the same digests again for the counters after them.
ArbitraryHmac(p) ==
    {[m \in Messages(p) |-> pattern[CounterOf(p, m) % OraclePeriod]] :
       pattern \in [0..(OraclePeriod - 1) -> OracleSamples]}

\* HMACs that go through all the digests of the model, counter by counter.
SweepHmac(p) ==
    {[m \in Messages(p) |->
         AllSamples[((CounterOf(p, m) + r) % Len(AllSamples)) + 1]] :
       r \in {0, Len(AllSamples) \div 2}}

Init ==
    /\ \/ /\ params \in MixedParams
          /\ hmac \in ArbitraryHmac(params)
       \/ /\ params \in GridParams
          /\ hmac \in SweepHmac(params)
    /\ IdleEngine
    /\ IdleCodec
    /\ IdleHelpers

Next == GenerateCall \/ VerifyCall \/ Tick

Spec == Init /\ [][Next]_vars

\* The engine called with parameters the data model rules out.
InitAnyParams ==
    /\ params \in InvalidParams \cup {OTPParams("SHA256", 8, 60, OtherSecret)}
    /\ hmac \in ArbitraryHmac(params)
    /\ IdleEngine
    /\ IdleCodec
    /\ IdleHelpers

SpecAnyParams == InitAnyParams /\ [][Next]_vars

\* The engine called with issuers, labels and secrets of any characters.
InitUri ==
    /\ params \in UriParams
    /\ hmac \in SweepHmac(params)
    /\ IdleEngine
    /\ IdleCodec
    /\ IdleHelpers

SpecUri == InitUri /\ [][Next]_vars

\* The codec called on its own.
InitCodec ==
    /\ params = OTPParams("SHA1", 6, 30, Base32Secret)
    /\ hmac = [m \in Messages(params) |-> AllSamples[1]]
    /\ IdleEngine
    /\ buf \in BuffersUpTo(MaxBytes)
    /\ encoded = NoString
    /\ decoded = NoBytes
    /\ decodedBare = NoBytes
    /\ IdleHelpers

NextCodec == EncodeCall \/ DecodeCall \/ DecodeBareCall

SpecCodec == InitCodec /\ [][NextCodec]_vars

----------------------------------------------------------------------------
(* Basic authorization headers (core/rfc7617.ts).                          *)

\* The Base64 alphabet of Buffer: A-Z, a-z, 0-9, + and /.
Base64Alphabet == UpperChars \o LowerChars \o DigitChars \o <<"+", "/">>

Base64Value == [ch \in Range(Base64Alphabet) |-> IndexOf(Base64Alphabet, ch) - 1]

Base64Char(n) == Base64Alphabet[(n % 64) + 1]

\* buffer.toString('base64') from byte i on: three bytes give four
\* characters, one or two bytes at the end are padded with "=".
RECURSIVE ToBase64(_, _)
ToBase64(b, i) ==
    IF i > Len(b) THEN <<>>
    ELSE IF i + 2 <= Len(b)
    THEN LET n == b[i] * 65536 + b[i + 1] * 256 + b[i + 2]
         IN <<Base64Char(n \div 262144), Base64Char(n \div 4096),
              Base64Char(n \div 64), Base64Char(n)>> \o ToBase64(b, i + 3)
    ELSE IF i + 1 = Len(b)
    THEN LET n == (b[i] * 256 + b[i + 1]) * 4
         IN <<Base64Char(n \div 4096), Base64Char(n \div 64), Base64Char(n), "=">>
    ELSE LET n == b[i] * 16
         IN <<Base64Char(n \div 64), Base64Char(n), "=", "=">>

\* Buffer.from(str, 'base64') from character i on, for a string of the
\* Base64 alphabet with "=" at its end: decoding stops at the first "=";
\* `value` holds the `bits` bits read and not yet written.
RECURSIVE FromBase64(_, _, _, _)
FromBase64(str, i, value, bits) ==
    IF i > Len(str) \/ str[i] = "=" THEN <<>>
    ELSE LET v == value * 64 + Base64Value[str[i]]
             n == bits + 6
         IN IF n >= 8
            THEN <<(v \div (2 ^ (n - 8))) % 256>>
                     \o FromBase64(str, i + 1, v % (2 ^ (n - 8)), n - 8)
            ELSE FromBase64(str, i + 1, v, n)

\* buffer.toString('utf-8'): the character of each UTF-8 sequence; the
\* bytes EF BF BD are U+FFFD, a byte that starts no sequence of the model
\* is read as U+FFFD.
RECURSIVE Utf8ToString(_)
Utf8ToString(bytes) ==
    IF bytes = <<>> THEN <<>>
    ELSE LET known == {ch \in Chars \ {LoneSurrogate} :
                         /\ Len(Utf8[ch]) <= Len(bytes)
                         /\ SubSeq(bytes, 1, Len(Utf8[ch])) = Utf8[ch]}
         IN IF known = {}
            THEN <<ReplacementChar>> \o Utf8ToString(Tail(bytes))
            ELSE LET ch == CHOOSE c \in known : TRUE
                 IN <<ch>> \o Utf8ToString(SubSeq(bytes, Len(Utf8[ch]) + 1, Len(bytes)))

createBasicAuth(username, password) ==
    LET credentials == username \o <<":">> \o password
        encodedCredentials == ToBase64(BufferFrom(credentials), 1)
    IN Text("Basic ") \o encodedCredentials

\* str.indexOf(part), counted from 1; 0 when part is not in str.
FirstIndexOf(str, part) ==
    LET at == {i \in 1..(Len(str) - Len(part) + 1) :
                  SubSeq(str, i, i + Len(part) - 1) = part}
    IN IF at = {} THEN 0 ELSE CHOOSE i \in at : \A j \in at : i <= j

\* str.lastIndexOf(part), counted from 1; 0 when part is not in str.
LastIndexOf(str, part) ==
    LET at == {i \in 1..(Len(str) - Len(part) + 1) :
                  SubSeq(str, i, i + Len(part) - 1) = part}
    IN IF at = {} THEN 0 ELSE CHOOSE i \in at : \A j \in at : i >= j

\* const [, credentials] = auth.split('Basic '): what stands between the
\* first 'Basic ' and the next one or the end; undefined without a 'Basic '.
SecondOfSplit(auth) ==
    LET first == FirstIndexOf(auth, Text("Basic "))
        rest == SubSeq(auth, first + 6, Len(auth))
        next == FirstIndexOf(rest, Text("Basic "))
    IN IF first = 0 THEN [defined |-> FALSE, text |-> <<>>]
       ELSE [defined |-> TRUE,
             text |-> IF next = 0 THEN rest ELSE SubSeq(rest, 1, next - 1)]

InvalidScheme ==
    [ok |-> FALSE, username |-> <<>>, password |-> <<>>, decoded |-> <<>>,
     error |-> "TypeError: parseBasicAuth: Invalid Basic authentication scheme!"]

\* The credentials cut at a given index of the separator.
CutAt(text, separator) ==
    IF separator = 0 THEN InvalidScheme
    ELSE [ok |-> TRUE, username |-> SubSeq(text, 1, separator - 1),
          password |-> SubSeq(text, separator + 1, Len(text)),
          decoded |-> text, error |-> ""]

\* parseBasicAuth that cuts at the last ":".
parseBasicAuth_LastColon(auth) ==
    LET credentials == SecondOfSplit(auth)
        text == Utf8ToString(FromBase64(credentials.text, 1, 0, 0))
    IN IF ~credentials.defined \/ credentials.text = <<>> THEN InvalidScheme
       ELSE CutAt(text, LastIndexOf(text, <<":">>))

parseBasicAuth(auth) ==
    LET credentials == SecondOfSplit(auth)
        text == Utf8ToString(FromBase64(credentials.text, 1, 0, 0))
    IN IF ~credentials.defined \/ credentials.text = <<>> THEN InvalidScheme
       ELSE CutAt(text, FirstIndexOf(text, <<":">>))

----------------------------------------------------------------------------
(* Errors and the error middleware (error/index.ts, error/AppError.ts).    *)
(* A value is a record: `class` names its Error class ("none" for a value  *)
(* that is no Error), `kind` tells the values that are no Error apart. A   *)
(* message is the sequence of the pieces it is concatenated from.          *)

\* undefined, and a stack that is a string.
Undefined == [defined |-> FALSE]

Stack(frames) == [defined |-> TRUE, frames |-> frames]

\* The type of an error without a type property.
Absent == "absent"

ErrorClasses == {"AppError", "Error", "SyntaxError", "TypeError", "ZodError"}

\* new <class>(message), with a type property when `type` is not Absent,
\* and the issues of a ZodError.
NewError(class, message, type, issues) ==
    [class |-> class, kind |-> "error", message |-> <<message>>, type |-> type,
     issues |-> issues, stack |-> Stack(<<class, message>>)]

\* A value that is no Error.
Value(kind, message, type, stack) ==
    [class |-> "none", kind |-> kind, message |-> <<message>>, type |-> type,
     issues |-> <<>>, stack |-> stack]

\* err instanceof Error
IsError(err) == err.class \in ErrorClasses

\* error || new Error(): null, undefined, 0 and '' are falsy.
Truthy(value) == value.class # "none" \/ value.kind \in {"errorLike", "object", "string"}

\* asError: an Error, or an object with a name and a message, is returned
\* as it is; any other value is wrapped in a new Error.
asError(value) ==
    IF IsError(value) \/ value.kind = "errorLike" THEN value
    ELSE [class |-> "Error", kind |-> "error", message |-> value.message,
          type |-> Absent, issues |-> <<>>, stack |-> Stack(<<"asError">>)]

\* `${statusCode}`.startsWith('4')
RECURSIVE StartsWithFour(_)
StartsWithFour(statusCode) ==
    IF statusCode < 10 THEN statusCode = 4 ELSE StartsWithFour(statusCode \div 10)

\* new AppError(message, statusCode, error)
AppError(message, statusCode, error) ==
    LET safeError == asError(IF Truthy(error) THEN error
                             ELSE NewError("Error", "", Absent, <<>>))
    IN [class |-> "AppError", kind |-> "error", message |-> message,
        status |-> IF StartsWithFour(statusCode) THEN "fail" ELSE "error",
        statusCode |-> statusCode, isOperational |-> TRUE,
        type |-> "operational.error", issues |-> <<>>,
        error |-> safeError, stack |-> safeError.stack]

\* path.join('.')
RECURSIVE Join(_)
Join(path) ==
    IF Len(path) <= 1 THEN path
    ELSE <<Head(path), ".">> \o Join(Tail(path))

formatZodError(error) ==
    IF Len(error.issues) > 0
    THEN Join(error.issues[1].path) \o <<": ", error.issues[1].message>>
    ELSE <<"Unknown Zod validation error">>

defaultHandleOperationalErrors(err) ==
    IF err.class = "SyntaxError"
    THEN AppError(<<"Invalid JSON! Please provide a valid one.">>, 400, err)
    ELSE IF err.type = "entity.too.large"
    THEN AppError(<<"Request too large! Please reduce your payload.">>, 413, err)
    ELSE IF err.class = "ZodError"
    THEN AppError(formatZodError(err), 400, err)
    ELSE AppError(<<"Internal Server Error!">>, 500, err)

\* The errors that defaultHandleOperationalErrors writes to console.error.
DefaultLogs(err) ==
    /\ err.class # "SyntaxError"
    /\ err.type # "entity.too.large"
    /\ err.class # "ZodError"

\* config.handleOperationalErrors: absent, a function that returns an
\* AppError, a function that returns nothing.
Handlers == {"absent", "teapot", "nothing"}

\* handleOperationalErrors?.(err)
HandleOperationalErrors(handler, err) ==
    IF handler = "teapot" THEN AppError(<<"Custom: ">> \o err.message, 418, err)
    ELSE Undefined

\* sendErrorResponse with the stack in every environment.
sendErrorResponse_AlwaysStack(environment, error) ==
    [statusCode |-> error.statusCode,
     body |-> [status |-> "error", message |-> error.message, stack |-> error.stack]]

\* res.status(error.statusCode).json(response): the status and the object
\* handed to res.json.
sendErrorResponse(environment, error) ==
    [statusCode |-> error.statusCode,
     body |-> IF environment = "development"
              THEN [status |-> "error", message |-> error.message,
                    stack |-> error.stack]
              ELSE [status |-> "error", message |-> error.message]]

\* An error middleware that calls next() after every error that is no
\* AppError.
errorHandler_NextAfterError(config, err) ==
    IF err.class = "AppError"
    THEN [responses |-> <<sendErrorResponse(config.environment, err)>>,
          logged |-> 0, nextCalled |-> FALSE]
    ELSE [responses |-> <<sendErrorResponse(config.environment,
                                            defaultHandleOperationalErrors(err))>>,
          logged |-> 1, nextCalled |-> TRUE]

\* The middleware that errorHandler(config) returns, called with err: the
\* responses it sent, the calls of console.error, whether next() was called.
errorHandler(config, err) ==
    IF err.class = "AppError"
    THEN [responses |-> <<sendErrorResponse(config.environment, err)>>,
          logged |-> 0, nextCalled |-> FALSE]
    ELSE IF IsError(err)
    THEN LET operationalError == HandleOperationalErrors(config.handleOperationalErrors, err)
         IN IF operationalError # Undefined
            THEN [responses |-> <<sendErrorResponse(config.environment, operationalError)>>,
                  logged |-> 0, nextCalled |-> FALSE]
            ELSE [responses |-> <<sendErrorResponse(config.environment,
                                                    defaultHandleOperationalErrors(err))>>,
                  logged |-> IF DefaultLogs(err) THEN 1 ELSE 0, nextCalled |-> FALSE]
    ELSE LET unknownError == AppError(<<"Unknown error! Please try again later.">>, 500, err)
         IN [responses |-> <<sendErrorResponse(config.environment, unknownError)>>,
             logged |-> 1, nextCalled |-> TRUE]

----------------------------------------------------------------------------
(* verifyEdDSAJWT (core/rfc7519.ts), an async function: one action per     *)
(* promise it waits for. importSPKI and jwtVerify are functions of jose.   *)

\* An error of jose, with the name of its class.
JoseError(name) ==
    [class |-> "Error", kind |-> "error", name |-> name, message |-> <<name>>,
     type |-> Absent, issues |-> <<>>, stack |-> Stack(<<name>>)]

\* An argument left out of a call.
NoArgument == Value("undefined", "undefined", Absent, Undefined)

\* asError(error).name
ErrorName(error) == IF "name" \in DOMAIN error THEN error.name ELSE error.class

KeyPairs == {"pair 1", "pair 2"}

Audiences == {"api", "web"}

Issuers == {"auth", "other"}

\* Public keys: the SPKI text of a key pair, or text that is no key.
PublicKeys == [valid : {TRUE}, pair : KeyPairs] \cup {[valid |-> FALSE, pair |-> "none"]}

\* The jti claim of a payload: a session, or '' for a payload without one.
JwtIds == {"", "session 1"}

\* Tokens: signed with a key pair for an audience and an issuer, with or
\* without a jti, expired or not; or text that is no JWS.
Tokens ==
    [wellFormed : {TRUE}, pair : KeyPairs, aud : Audiences, iss : Issuers,
     jti : JwtIds, expired : BOOLEAN]
      \cup {[wellFormed |-> FALSE, pair |-> "none", aud |-> "none", iss |-> "none",
              jti |-> "", expired |-> FALSE]}

Fulfilled(value) == [state |-> "fulfilled", value |-> value]

Rejected(reason) == [state |-> "rejected", reason |-> reason]

\* The promise of importSPKI(publicKey, 'EdDSA'), settled.
importSPKI(publicKey) ==
    IF publicKey.valid THEN Fulfilled(publicKey.pair)
    ELSE Rejected(NewError("TypeError", "\"spki\" must be SPKI formatted string", Absent, <<>>))

\* The promise of jwtVerify(token, key, { audience, issuer }), settled.
jwtVerify(token, key, audience, issuer) ==
    IF ~token.wellFormed THEN Rejected(JoseError("JWSInvalid"))
    ELSE IF token.pair # key THEN Rejected(JoseError("JWSSignatureVerificationFailed"))
    ELSE IF token.iss # issuer \/ token.aud # audience
    THEN Rejected(JoseError("JWTClaimValidationFailed"))
    ELSE IF token.expired THEN Rejected(JoseError("JWTExpired"))
    ELSE Fulfilled([payload |-> [aud |-> token.aud, iss |-> token.iss, jti |-> token.jti]])

\* The promise of verifyEdDSAJWT(token, publicKey, audience, issuer),
\* settled: what the actions below reach step by step.
verifyEdDSAJWT(token, publicKey, audience, issuer) ==
    LET imported == importSPKI(publicKey)
    IN IF imported.state = "rejected"
       THEN Rejected(AppError(<<ErrorName(asError(imported.reason))>>, 401, NoArgument))
       ELSE jwtVerify(token, imported.value, audience, issuer)

\* verifyEdDSAJWT(token, publicKey, audience, issuer) is called and runs up
\* to its await of importSPKI.
VerifyJwtCall ==
    /\ jwt.pc = "idle"
    /\ \E token \in Tokens, publicKey \in PublicKeys,
          audience \in Audiences, issuer \in Issuers :
           jwt' = [pc |-> "importSPKI", token |-> token, publicKey |-> publicKey,
                   audience |-> audience, issuer |-> issuer]
    /\ UNCHANGED <<otpVars, codecVars, util, webVars>>

\* importSPKI settles. A rejection is thrown at the await, inside the try:
\* the catch throws an AppError. Otherwise jwtVerify is called and its
\* promise is returned, without await.
ImportSettles ==
    /\ jwt.pc = "importSPKI"
    /\ \E imported \in {importSPKI(jwt.publicKey)} :
           jwt' = IF imported.state = "rejected"
                  THEN [jwt EXCEPT !.pc = "settled"] @@
                       [importFailed |-> TRUE, verifyFailed |-> FALSE,
                        promise |-> Rejected(AppError(<<ErrorName(asError(imported.reason))>>,
                                                      401, NoArgument))]
                  ELSE [jwt EXCEPT !.pc = "jwtVerify"] @@
                       [publicKeyEncoded |-> imported.value]
    /\ UNCHANGED <<otpVars, codecVars, util, webVars>>

\* The promise of jwtVerify settles after the function has returned it: the
\* promise of verifyEdDSAJWT follows it, the try block has been left.
VerifySettles ==
    /\ jwt.pc = "jwtVerify"
    /\ \E verified \in {jwtVerify(jwt.token, jwt.publicKeyEncoded,
                                    jwt.audience, jwt.issuer)} :
           jwt' = [jwt EXCEPT !.pc = "settled"] @@
                  [importFailed |-> FALSE, verifyFailed |-> verified.state = "rejected",
                   promise |-> verified]
    /\ UNCHANGED <<otpVars, codecVars, util, webVars>>

----------------------------------------------------------------------------
(* The Redis wrapper (redis/index.ts). `clients` are the IORedis clients   *)
(* constructed so far, in order; a client is known by its place there.     *)

\* new IORedis({ host, password, port }), as the next client.
NewClient(options, clients) ==
    [defined |-> TRUE, id |-> Len(clients) + 1, options |-> options]

\* getClient that constructs a client at every call.
getClient_AlwaysNew(instance, clients) ==
    LET client == NewClient(instance.options, clients)
    IN [instance |-> [instance EXCEPT !.clientInstance = client],
        clients |-> Append(clients, client), result |-> client]

\* getClient(): the wrapper after the call, the clients after the call and
\* the client returned.
getClient(instance, clients) ==
    IF ~instance.clientInstance.defined
    THEN LET client == NewClient(instance.options, clients)
         IN [instance |-> [instance EXCEPT !.clientInstance = client],
             clients |-> Append(clients, client), result |-> client]
    ELSE [instance |-> instance, clients |-> clients,
          result |-> instance.clientInstance]

GetClientCall ==
    \E w \in Wrappers :
        /\ Len(redis.instances[w].returned) < MaxGetClient
        /\ \E r \in {getClient(redis.instances[w], redis.clients)} :
               redis' = [instances |->
                             [redis.instances EXCEPT
                                 ![w] = [r.instance EXCEPT
                                            !.returned = Append(@, r.result)]],
                         clients |-> r.clients]
        /\ UNCHANGED <<otpVars, codecVars, util, jwt, http, server>>

NextRedis == GetClientCall

----------------------------------------------------------------------------
(* The Server class (server/index.ts) and the process it runs in. `log`    *)
(* are the calls made and the promises settled, in order.                  *)

\* What a startup check does: it is not given, its promise resolves, its
\* promise rejects, or it throws when called.
CheckKinds == {"absent", "resolves", "rejects", "throws"}

Signals == {"SIGINT", "SIGQUIT", "SIGTERM"}

\* The reasons of an unhandled rejection: an Error, a string, undefined.
RejectionReasons == {"Error", "string", "undefined"}

\* The step of start() after the extra checks: listen.
StepAfterExtraChecks == "listen"

\* A start() that leaves the extra checks out.
StepAfterInfrastructure_Listen(s) == "listen"

\* The step of start() after the infrastructure check.
StepAfterInfrastructure(s) ==
    IF s.extraStartupChecks # "absent" THEN "extraStartupChecks" ELSE StepAfterExtraChecks

\* The first step of start() after setupUncaughtExceptionHandling.
FirstStep(s) ==
    IF s.infrastructureCheck # "absent" THEN "infrastructureCheck"
    ELSE StepAfterInfrastructure(s)

\* start() runs a step up to its next await: listen and
\* setupGracefulShutdown, or the call of a check; a check that throws
\* rejects the promise of start().
RunStep(s, step) ==
    IF step = "listen"
    THEN [s EXCEPT !.pc = "started", !.log = Append(@, "listen"),
                   !.listening = TRUE,
                   !.listeners = @ \cup {"unhandledRejection"} \cup Signals]
    ELSE IF s[step] = "throws"
    THEN [s EXCEPT !.pc = "rejected", !.log = @ \o <<step, "failed">>]
    ELSE [s EXCEPT !.pc = step, !.log = Append(@, step)]

\* start() is called on a server constructed with its two checks.
ServerStart ==
    /\ server.pc = "constructed"
    /\ \E infrastructureCheck \in CheckKinds, extraStartupChecks \in CheckKinds :
           \E s \in {[server EXCEPT !.infrastructureCheck = infrastructureCheck,
                                    !.extraStartupChecks = extraStartupChecks,
                                    !.listeners = {"uncaughtException"}]} :
               server' = RunStep(s, FirstStep(s))
    /\ UNCHANGED <<otpVars, codecVars, util, jwt, http, redis>>

\* The promise of the check that start() awaits settles.
CheckSettles ==
    /\ server.pc \in {"infrastructureCheck", "extraStartupChecks"}
    /\ ~server.exit.called
    /\ server' =
          IF server[server.pc] = "rejects"
          THEN [server EXCEPT !.pc = "rejected", !.log = Append(@, "failed")]
          ELSE RunStep([server EXCEPT !.log = Append(@, "passed")],
                       IF server.pc = "infrastructureCheck"
                       THEN StepAfterInfrastructure(server)
                       ELSE StepAfterExtraChecks)
    /\ UNCHANGED <<otpVars, codecVars, util, jwt, http, redis>>

\* process.exit(code)
Exit(s, code, cause) ==
    [s EXCEPT !.exit = [called |-> TRUE, code |-> code, cause |-> cause]]

\* The listener of uncaughtException: process.exit(1).
UncaughtExceptionHandler(s, cause) == Exit(s, 1, cause)

\* shutdownHandler(reason, exitCode): httpServer.close with a callback that
\* exits.
shutdownHandler(s, reason, exitCode) ==
    [s EXCEPT !.log = Append(@, "close"), !.listening = FALSE, !.closing = TRUE,
              !.closeCallbacks = Append(@, exitCode),
              !.shutdowns = Append(@, [reason |-> reason, exitCode |-> exitCode])]

\* The process receives a signal: its listener runs the shutdown; without a
\* listener the signal ends the process.
Signal ==
    /\ server.pc # "constructed"
    /\ ~server.exit.called
    /\ Len(server.received) < MaxEvents
    /\ \E signal \in Signals :
           \E s \in {[server EXCEPT !.received =
                           Append(@, [event |-> signal, reason |-> "none",
                                      started |-> server.pc = "started"])]} :
               server' = IF signal \in server.listeners
                         THEN shutdownHandler(s, signal, 0)
                         ELSE Exit(s, 0, signal)
    /\ UNCHANGED <<otpVars, codecVars, util, jwt, http, redis>>

\* A promise is rejected and nobody handles it. The listener reads
\* error.name, which throws a TypeError when the reason is undefined; an
\* exception of a listener, and a rejection without a listener, are
\* uncaught exceptions.
UnhandledRejection ==
    /\ server.pc # "constructed"
    /\ ~server.exit.called
    /\ Len(server.received) < MaxEvents
    /\ \E reason \in RejectionReasons :
           \E s \in {[server EXCEPT !.received =
                           Append(@, [event |-> "unhandledRejection", reason |-> reason,
                                      started |-> server.pc = "started"])]} :
               server' = IF "unhandledRejection" \notin server.listeners
                         THEN UncaughtExceptionHandler(s, "unhandledRejection")
                         ELSE IF reason = "undefined"
                         THEN UncaughtExceptionHandler(s, "TypeError in listener")
                         ELSE shutdownHandler(s, "unhandledRejection", 1)
    /\ UNCHANGED <<otpVars, codecVars, util, jwt, http, redis>>

\* An exception is thrown and nobody catches it.
UncaughtException ==
    /\ server.pc # "constructed"
    /\ ~server.exit.called
    /\ server' = UncaughtExceptionHandler(server, "uncaughtException")
    /\ UNCHANGED <<otpVars, codecVars, util, jwt, http, redis>>

\* A client connects to the listening server.
ConnectionOpens ==
    /\ server.listening
    /\ ~server.exit.called
    /\ server.connections < MaxConnections
    /\ server' = [server EXCEPT !.connections = @ + 1]
    /\ UNCHANGED <<otpVars, codecVars, util, jwt, http, redis>>

\* A connection ends.
ConnectionCloses ==
    /\ server.connections > 0
    /\ ~server.exit.called
    /\ server' = [server EXCEPT !.connections = @ - 1]
    /\ UNCHANGED <<otpVars, codecVars, util, jwt, http, redis>>

\* The server that was asked to close has no connection left: it emits
\* 'close', the callbacks of close run in order, the first one exits.
CloseEvent ==
    /\ server.closing
    /\ ~server.closeFired
    /\ ~server.exit.called
    /\ server.connections = 0
    /\ server' = Exit([server EXCEPT !.closeFired = TRUE, !.closing = FALSE,
                                     !.log = Append(@, "close callback")],
                      server.closeCallbacks[1], "shutdownHandler")
    /\ UNCHANGED <<otpVars, codecVars, util, jwt, http, redis>>

NextServer ==
    \/ ServerStart
    \/ CheckSettles
    \/ Signal
    \/ UnhandledRejection
    \/ UncaughtException
    \/ ConnectionOpens
    \/ ConnectionCloses
    \/ CloseEvent

----------------------------------------------------------------------------
(* The controllers (util/promise-controller.ts and the two versions of     *)
(* util/result-async-controller.ts): one action up to the call of the      *)
(* callback, one for the promise of the callback.                          *)

\* What a schema does with its part of the request or with the result: it
\* is not given, safeParse succeeds, safeParse fails.
SchemaKinds == {"absent", "accepts", "refuses"}

RequestSchemas ==
    [params : SchemaKinds, body : SchemaKinds, query : SchemaKinds,
     response : SchemaKinds]

\* The controllers: promiseController, resultAsyncController of
\* util/result-async-controller.ts, and its version with try and catch.
Controllers == {"promiseController", "resultAsyncController", "resultAsyncController try"}

\* What the callback does: its promise resolves (its ResultAsync is ok), its
\* promise rejects (its ResultAsync is an err with an AppError), it throws
\* when called.
CallbackKinds == {"resolves", "rejects", "throws"}

\* The results of a callback: an object, and one that JSON.stringify
\* refuses, which makes res.json throw.
ResultKinds == {"object", "circular"}

SuccessStatusCodes == {200, 201}

\* requestErrors after the three safeParse calls.
RequestErrors(schemas) ==
    (IF schemas.params = "refuses" THEN <<"Params">> ELSE <<>>)
        \o (IF schemas.body = "refuses" THEN <<"Body">> ELSE <<>>)
        \o (IF schemas.query = "refuses" THEN <<"Query">> ELSE <<>>)

\* The error that a callback throws or rejects with, and the AppError of an
\* err ResultAsync.
CallbackError == NewError("Error", "Unexpected", Absent, <<>>)

CallbackAppError == AppError(<<"Callback error">>, 500, CallbackError)

\* The ZodError of a response schema that refuses the result.
ResponseZodError ==
    NewError("ZodError", "zod", Absent,
             <<[path |-> <<"message">>, message |-> "Expected string, received number"]>>)

\* next(error) is called.
CallNext(h, error) == [h EXCEPT !.nextCalls = Append(@, error), !.pc = "done"]

\* res.status(successStatusCode).json(body) is called: the response is
\* sent. With a result that cannot be written as JSON, res.json throws.
SendJson(h, shape) ==
    [h EXCEPT !.responses = Append(@, [statusCode |-> h.successStatusCode,
                                       body |-> [shape |-> shape, value |-> h.result]]),
              !.pc = "done"]

\* A promiseController whose catch does nothing.
AfterCallbackFailed_Nothing(h, error) == [h EXCEPT !.pc = "done"]

\* The catch of promiseController and of the resultAsyncController with try.
AfterCallbackFailed(h, error) ==
    CallNext(h, AppError(<<"Unknown error! Please try again later!">>, 500, error))

\* The exception leaves the handler: nobody in it catches it.
Propagate(h, error) == [h EXCEPT !.thrown = <<error>>, !.pc = "done"]

\* The handler from its start to the call of the callback.
StartController(h) ==
    IF RequestErrors(h.schemas) # <<>>
    THEN CallNext(h, AppError(<<"Bad request">>, 400,
                              Value("object", "requestErrors", Absent, Undefined)))
    ELSE LET called == [h EXCEPT !.cbCalls = @ + 1]
         IN IF h.cb # "throws" THEN [called EXCEPT !.pc = "callback"]
            ELSE IF h.controller = "resultAsyncController"
            THEN Propagate(called, CallbackError)
            ELSE AfterCallbackFailed(called, CallbackError)

\* promiseController after the promise of the callback has settled.
AfterCallbackPromise(h) ==
    IF h.cb = "rejects" THEN AfterCallbackFailed(h, CallbackError)
    ELSE IF h.schemas.response = "refuses"
    THEN CallNext(h, AppError(<<"Bad response">>, 500, ResponseZodError))
    ELSE IF h.result = "circular"
    THEN AfterCallbackFailed(h, NewError("TypeError", "Converting circular structure to JSON",
                                         Absent, <<>>))
    ELSE SendJson(h, "result")

\* resultAsyncController of util/result-async-controller.ts after the
\* ResultAsync has settled: andThen, then then. An exception of res.json in
\* then rejects a promise that nobody handles.
AfterCallbackResult(h) ==
    IF h.cb = "rejects" THEN CallNext(h, CallbackAppError)
    ELSE IF h.schemas.response = "refuses"
    THEN CallNext(h, AppError(formatZodError(ResponseZodError), 500, NoArgument))
    ELSE IF h.result = "circular"
    THEN Propagate(h, NewError("TypeError", "Converting circular structure to JSON",
                               Absent, <<>>))
    ELSE SendJson(h, IF h.schemas.response = "accepts" THEN "parsed result" ELSE "result")

\* The resultAsyncController with try and catch after the ResultAsync has
\* settled: result.match.
AfterCallbackResultTry(h) ==
    IF h.cb = "rejects" THEN CallNext(h, CallbackAppError)
    ELSE IF h.schemas.response = "refuses"
    THEN CallNext(h, AppError(<<"Bad response">>, 500, ResponseZodError))
    ELSE IF h.result = "circular"
    THEN AfterCallbackFailed(h, NewError("TypeError", "Converting circular structure to JSON",
                                         Absent, <<>>))
    ELSE SendJson(h, "{ data: result, status: 'success' }")

\* A request reaches the handler of a controller.
ControllerCall ==
    /\ http.pc = "idle"
    /\ \E controller \in Controllers, schemas \in RequestSchemas, cb \in CallbackKinds,
          result \in ResultKinds, successStatusCode \in SuccessStatusCodes :
           http' = StartController(
                       [pc |-> "start", controller |-> controller, schemas |-> schemas,
                        cb |-> cb, result |-> result,
                        successStatusCode |-> successStatusCode, cbCalls |-> 0,
                        responses |-> <<>>, nextCalls |-> <<>>, thrown |-> <<>>])
    /\ UNCHANGED <<otpVars, codecVars, util, jwt, server, redis>>

\* The promise or the ResultAsync of the callback settles.
CallbackSettles ==
    /\ http.pc = "callback"
    /\ http' = IF http.controller = "promiseController" THEN AfterCallbackPromise(http)
               ELSE IF http.controller = "resultAsyncController"
               THEN AfterCallbackResult(http)
               ELSE AfterCallbackResultTry(http)
    /\ UNCHANGED <<otpVars, codecVars, util, jwt, server, redis>>

----------------------------------------------------------------------------
(* The hasJWT middleware (middlewares/has-jwt.ts), an async function: one  *)
(* action per promise it awaits.                                           *)

\* The header the token is read from: not sent, sent empty, sent several
\* times (a list, which extractHeader refuses), sent with a token.
HeaderKinds == {"absent", "empty", "list", "token"}

\* onTokenValidated: not given, its promise resolves, its promise rejects.
TokenValidatedKinds == {"absent", "resolves", "rejects"}

\* extractHeader(req, header): the string of the header, or undefined.
extractHeader(headerKind) == headerKind \in {"empty", "token"}

\* !token
NoToken(headerKind) == ~extractHeader(headerKind) \/ headerKind = "empty"

\* The promise of the async middleware rejects: its await threw, nothing in
\* it catches, next is not called.
MiddlewareRejects(h, reason) == [h EXCEPT !.rejected = <<reason>>, !.pc = "done"]

\* hasJWT after verifyEdDSAJWT has resolved with the decoded token.
AfterVerified(h, decodedJwt) ==
    IF decodedJwt.payload.jti = ""
    THEN CallNext(h, AppError(<<"The JTI of the token is invalid. Please verify your session again.">>,
                              401, NoArgument))
    ELSE IF h.onTokenValidated # "absent"
    THEN [h EXCEPT !.pc = "onTokenValidated", !.validatedCalls = @ + 1]
    ELSE CallNext(h, NoArgument)

\* A request reaches the middleware, which runs up to its await of
\* verifyEdDSAJWT.
HasJwtCall ==
    /\ http.pc = "idle"
    /\ \E headerKind \in HeaderKinds, token \in Tokens, publicKey \in PublicKeys,
          audience \in Audiences, issuer \in Issuers,
          onTokenValidated \in TokenValidatedKinds :
           \E h \in {[pc |-> "start", controller |-> "hasJWT", header |-> headerKind,
                       token |-> token, publicKey |-> publicKey, audience |-> audience,
                       issuer |-> issuer, onTokenValidated |-> onTokenValidated,
                       verifyCalls |-> 0, validatedCalls |-> 0, verified |-> FALSE,
                       responses |-> <<>>, nextCalls |-> <<>>, rejected |-> <<>>]} :
               http' = IF NoToken(headerKind)
                       THEN CallNext(h, AppError(<<"You do not possess an OTP session. Please verify your OTP by MFA.">>,
                                                 401, NoArgument))
                       ELSE [h EXCEPT !.pc = "verifyEdDSAJWT", !.verifyCalls = 1]
    /\ UNCHANGED <<otpVars, codecVars, util, jwt, server, redis>>

\* The promise of verifyEdDSAJWT settles.
JwtVerified ==
    /\ http.pc = "verifyEdDSAJWT"
    /\ \E decodedJwt \in {verifyEdDSAJWT(http.token, http.publicKey, http.audience,
                                       http.issuer)} :
           http' = IF decodedJwt.state = "rejected"
                   THEN MiddlewareRejects(http, decodedJwt.reason)
                   ELSE AfterVerified([http EXCEPT !.verified = TRUE], decodedJwt.value)
    /\ UNCHANGED <<otpVars, codecVars, util, jwt, server, redis>>

\* The promise of onTokenValidated settles.
TokenValidatedSettles ==
    /\ http.pc = "onTokenValidated"
    /\ http' = IF http.onTokenValidated = "rejects"
               THEN MiddlewareRejects(http, CallbackError)
               ELSE CallNext(http, NoArgument)
    /\ UNCHANGED <<otpVars, codecVars, util, jwt, server, redis>>

----------------------------------------------------------------------------
(* The application built by the Api class (api/index.ts): the middlewares  *)
(* in the order the constructor mounts them. A request walks the list; a   *)
(* middleware calls next(), calls next(err) or answers.                    *)

\* configureApp, applyHandlers: the stack of the application.
Middlewares ==
    <<"morgan", "helmet", "xRequestedWith", "accept", "busyHandler", "hpp",
      "xst", "favicon", "successLogger", "handlers", "notFound">>

\* applyErrorHandlers: the error middlewares, after the stack.
ErrorMiddlewares == <<"errorLogger", "errorHandler">>

\* this.errorHandlerConfig when the options give none.
DefaultErrorHandlerConfig == [environment |-> "development", handleOperationalErrors |-> "absent"]

\* The accept header: not sent, application/json, text/html.
AcceptKinds == {"absent", "application/json", "text/html"}

\* Request methods: two that xst allows and one that it does not.
Methods == {"GET", "POST", "TRACE"}

\* The methods of allowedMethods that the requests here use.
AllowedMethods == {"OPTIONS", "HEAD", "CONNECT", "GET", "POST", "PATCH", "PUT", "DELETE"}

\* Requests: is x-requested-with sent, the accept header, the method, does
\* originalUrl include 'favicon.ico', does the path of a handler match.
Requests ==
    [xRequestedWith : BOOLEAN, accept : AcceptKinds, method : Methods,
     favicon : BOOLEAN, routed : BOOLEAN]

CallsNext == [kind |-> "next"]

NextWith(error) == [kind |-> "error", error |-> error]

Responds(statusCode) == [kind |-> "response", statusCode |-> statusCode]

\* What the middleware `name` does with the request; toobusy is the answer
\* of toobusy() at that moment.
RunMiddleware(name, req, toobusy) ==
    IF name = "xRequestedWith"
    THEN IF ~req.xRequestedWith
         THEN NextWith(AppError(<<"This API does not accept cross-site requests with browser agents unless from an authorized source.">>,
                                403, NoArgument))
         ELSE CallsNext
    ELSE IF name = "accept"
    THEN IF req.accept # "application/json"
         THEN NextWith(AppError(<<"API does not support the requested content type.">>,
                                406, NoArgument))
         ELSE CallsNext
    ELSE IF name = "busyHandler"
    THEN IF toobusy
         THEN NextWith(AppError(<<"API is currently too busy. Please try again later!">>,
                                503, NoArgument))
         ELSE CallsNext
    ELSE IF name = "xst"
    THEN IF req.method \notin AllowedMethods
         THEN NextWith(AppError(<<"Method ", req.method, " is not allowed in this API!">>,
                                405, NoArgument))
         ELSE CallsNext
    ELSE IF name = "favicon"
    THEN IF req.favicon THEN Responds(204) ELSE CallsNext
    ELSE IF name = "handlers"
    THEN IF req.routed THEN Responds(200) ELSE CallsNext
    ELSE IF name = "notFound"
    THEN NextWith(AppError(<<"Cannot find '", "originalUrl", "' on this server!">>,
                           404, NoArgument))
    ELSE CallsNext

\* A request arrives at the application.
RequestArrives ==
    /\ http.pc = "idle"
    /\ \E req \in Requests :
           http' = [pc |-> "stack", controller |-> "Api", req |-> req, at |-> 1,
                    reached |-> <<>>, responses |-> <<>>, error |-> <<>>]
    /\ UNCHANGED <<otpVars, codecVars, util, jwt, server, redis>>

\* The next middleware of the stack runs.
MiddlewareRuns ==
    /\ http.pc = "stack"
    /\ \E toobusy \in BOOLEAN :
         \E did \in {RunMiddleware(Middlewares[http.at], http.req, toobusy)} :
           http' = [http EXCEPT
                      !.reached = Append(@, Middlewares[http.at]),
                      !.at = IF did.kind = "next" THEN @ + 1 ELSE 1,
                      !.pc = IF did.kind = "next" THEN "stack"
                             ELSE IF did.kind = "error" THEN "errors" ELSE "done",
                      !.error = IF did.kind = "error" THEN <<did.error>> ELSE @,
                      !.responses = IF did.kind = "response"
                                    THEN Append(@, [statusCode |-> did.statusCode])
                                    ELSE @]
    /\ UNCHANGED <<otpVars, codecVars, util, jwt, server, redis>>

\* After next(err): the next error middleware runs. errorLogger hands the
\* error on, errorHandler answers.
ErrorMiddlewareRuns ==
    /\ http.pc = "errors"
    /\ http' = IF ErrorMiddlewares[http.at] = "errorHandler"
               THEN [http EXCEPT
                       !.reached = Append(@, "errorHandler"),
                       !.responses = @ \o errorHandler(DefaultErrorHandlerConfig,
                                                       http.error[1]).responses,
                       !.pc = "done"]
               ELSE [http EXCEPT !.reached = Append(@, ErrorMiddlewares[http.at]),
                                 !.at = @ + 1]
    /\ UNCHANGED <<otpVars, codecVars, util, jwt, server, redis>>

----------------------------------------------------------------------------
(* The helper functions called on their own.                               *)

RECURSIVE StringsUpTo(_, _)
StringsUpTo(alphabet, n) ==
    IF n = 0 THEN {<<>>}
    ELSE LET shorter == StringsUpTo(alphabet, n - 1)
         IN shorter \cup {Append(s, ch) : s \in {t \in shorter : Len(t) = n - 1},
                                          ch \in alphabet}

\* b32ToBuf on text of any kind: letters and digits of the alphabet, digits
\* and punctuation outside it, padding.
TextInputs == StringsUpTo({"A", "7", "1", "_", PadChar}, MaxText)

DecodeTextCall ==
    /\ util = NoUtil
    /\ \E str \in TextInputs :
           util' = [op |-> "b32ToBuf", str |-> str, result |-> b32ToBuf(str)]
    /\ UNCHANGED <<otpVars, codecVars, jwt, webVars>>

\* b32FromBuf on buffers of every length up to MaxEncodeBytes.
EncodeInputs ==
    {[i \in 1..n |-> (i * 73 + seed * 29) % 256] :
       n \in 0..MaxEncodeBytes, seed \in 0..3}

EncodeBytesCall ==
    /\ util = NoUtil
    /\ \E b \in EncodeInputs :
           util' = [op |-> "b32FromBuf", bytes |-> b, result |-> b32FromBuf(b)]
    /\ UNCHANGED <<otpVars, codecVars, jwt, webVars>>

\* The strings handed to timingSafeStringCompare: tokens, strings that
\* differ in length, and strings that Unicode holds to be the same text.
CompareInputs ==
    {<<>>, <<"a", "b", "c">>, <<"a", "b", "d">>, <<"a", "b">>,
     <<"K">>, <<KelvinSign>>, <<"e", CombiningAcute>>, <<SmallEAcute>>,
     <<LoneSurrogate>>, <<ReplacementChar>>, <<"1", "2", "3", "4", "5", "6">>,
     <<"1", "2", "3", "4", "5", "7">>}

CompareCall ==
    /\ util = NoUtil
    /\ \E a \in CompareInputs, b \in CompareInputs :
           util' = [op |-> "timingSafeStringCompare", a |-> a, b |-> b,
                    result |-> timingSafeStringCompare(a, b)]
    /\ UNCHANGED <<otpVars, codecVars, jwt, webVars>>

\* A number n in 0..2^53 - 1 in two parts: n = hi * 2^24 + lo.
Number(hi, lo) == [hi |-> hi, lo |-> lo]

\* 2^53 - 1 (Number.MAX_SAFE_INTEGER), 2^48 - 1, 2^32, 2^24, 12345678 and
\* the small numbers.
NumberInputs ==
    {Number(536870911, 16777215), Number(16777215, 16777215), Number(256, 0),
     Number(1, 0), Number(0, 12345678), Number(65536, 255)}
      \cup {Number(0, n) : n \in 0..MaxSmallNumber}

NumberToBufCall ==
    /\ util = NoUtil
    /\ \E n \in NumberInputs :
           util' = [op |-> "numberToBuf", n |-> n,
                    result |-> numberToBufParts(n.hi, n.lo),
                    small |-> IF n.hi = 0 THEN numberToBuf(n.lo) ELSE <<>>]
    /\ UNCHANGED <<otpVars, codecVars, jwt, webVars>>

\* User names and passwords: empty, with and without ":", with characters
\* of two and three UTF-8 bytes, with a surrogate on its own.
UserNames ==
    {<<>>, <<"u">>, <<"u", "s", "e", "r">>, <<"u", ":", "x">>, <<SmallEAcute>>,
     <<KelvinSign, "!">>, <<LoneSurrogate>>, Text("Basic ")}

Passwords ==
    {<<>>, <<"p">>, <<"p", ":", "w">>, <<":">>, <<":", "p", ":">>, <<"p", "w", "d">>,
     <<SmallEAcute, "e", CombiningAcute>>, <<"p", LoneSurrogate>>}

\* createBasicAuth and parseBasicAuth of its result.
BasicAuthCall ==
    /\ util = NoUtil
    /\ \E username \in UserNames, password \in Passwords :
           \E auth \in {createBasicAuth(username, password)} :
               util' = [op |-> "parseBasicAuth", username |-> username,
                        password |-> password, auth |-> auth,
                        result |-> parseBasicAuth(auth)]
    /\ UNCHANGED <<otpVars, codecVars, jwt, webVars>>

\* parseBasicAuth of headers written by hand.
HeaderInputs ==
    {<<>>, Text("Basic "), <<"B", "e", "a", "r", "e", "r", " ", "d", "T", "p", "w">>,
     Text("Basic ") \o <<"d", "X", "A", "=">>,
     Text("Basic ") \o <<"d", "T", "p", "w">>,
     Text("Basic ") \o <<"d", "T", "p", "w">> \o Text("Basic ") \o <<"d", "X", "A", "=">>}

ParseHeaderCall ==
    /\ util = NoUtil
    /\ \E auth \in HeaderInputs :
           util' = [op |-> "parseBasicAuth", username |-> <<>>, password |-> <<>>,
                    auth |-> auth, result |-> parseBasicAuth(auth)]
    /\ UNCHANGED <<otpVars, codecVars, jwt, webVars>>

Environments == {"development", "production"}

Configs == [environment : Environments, handleOperationalErrors : Handlers]

ZodIssues ==
    {<<>>,
     <<[path |-> <<"email">>, message |-> "Required"]>>,
     <<[path |-> <<"user", "0", "name">>, message |-> "Too short"],
       [path |-> <<"age">>, message |-> "Required"]>>,
     <<[path |-> <<>>, message |-> "Expected object"]>>}

\* Errors that are no AppError.
PlainErrors ==
    {NewError("Error", "Test error", Absent, <<>>),
     NewError("Error", "request entity too large", "entity.too.large", <<>>),
     NewError("Error", "request aborted", "request.aborted", <<>>),
     NewError("TypeError", "x is not a function", Absent, <<>>),
     NewError("SyntaxError", "Invalid JSON", Absent, <<>>),
     NewError("SyntaxError", "Unexpected token", "entity.parse.failed", <<>>),
     NewError("SyntaxError", "too large", "entity.too.large", <<>>)}
      \cup {NewError("ZodError", "zod", Absent, issues) : issues \in ZodIssues}
      \cup {NewError("ZodError", "zod", "entity.too.large", <<>>)}

\* Values that are no Error: a string, null, undefined, objects with and
\* without a name and a message.
OtherValues ==
    {Value("string", "Unknown error", Absent, Undefined),
     Value("null", "null", Absent, Undefined),
     Value("undefined", "undefined", Absent, Undefined),
     Value("errorLike", "bar", Absent, Undefined),
     Value("errorLike", "bar", Absent, Stack(<<>>)),
     Value("object", "{}", "entity.too.large", Undefined)}

AppErrors ==
    {AppError(<<"Test message">>, 400, NewError("Error", "Test error", Absent, <<>>)),
     AppError(<<"Not found">>, 404, Value("errorLike", "bar", Absent, Undefined)),
     AppError(<<"Unavailable">>, 503, Value("undefined", "undefined", Absent, Undefined)),
     AppError(<<"Token">>, 401, Value("string", "JWSInvalid", Absent, Undefined)),
     AppError(<<"Gone">>, 4, NewError("TypeError", "x", Absent, <<>>))}

\* The error middleware called with a value.
ErrorHandlerCall ==
    /\ util = NoUtil
    /\ \E config \in Configs, err \in AppErrors \cup PlainErrors \cup OtherValues :
           util' = [op |-> "errorHandler", config |-> config, err |-> err,
                    result |-> errorHandler(config, err)]
    /\ UNCHANGED <<otpVars, codecVars, jwt, webVars>>

\* defaultHandleOperationalErrors called on its own.
DefaultHandleCall ==
    /\ util = NoUtil
    /\ \E err \in PlainErrors \cup {Value("object", "{}", "entity.too.large", Undefined)} :
           util' = [op |-> "defaultHandleOperationalErrors", err |-> err,
                    result |-> defaultHandleOperationalErrors(err)]
    /\ UNCHANGED <<otpVars, codecVars, jwt, webVars>>

InitHelpers ==
    /\ params = OTPParams("SHA1", 6, 30, Base32Secret)
    /\ hmac = [m \in Messages(params) |-> AllSamples[1]]
    /\ IdleEngine
    /\ IdleCodec
    /\ IdleHelpers

NextHelpers ==
    \/ DecodeTextCall
    \/ EncodeBytesCall
    \/ CompareCall
    \/ NumberToBufCall
    \/ BasicAuthCall
    \/ ParseHeaderCall
    \/ ErrorHandlerCall
    \/ DefaultHandleCall

SpecHelpers == InitHelpers /\ [][NextHelpers]_vars

NextJwt ==
    \/ VerifyJwtCall
    \/ ImportSettles
    \/ VerifySettles

SpecJwt == InitHelpers /\ [][NextJwt]_vars

----------------------------------------------------------------------------
(* verifyOwnTOTP one iteration at a time, with the numbers of JavaScript:  *)
(* a division by 0 gives Infinity, and Infinity - window, Infinity + 1 and *)
(* Infinity + window are Infinity.                                         *)

Finite(n) == [inf |-> FALSE, n |-> n]

PlusInfinity == [inf |-> TRUE, n |-> 0]

\* x + k and x - k for a number k of the model.
JsPlus(x, k) == IF x.inf THEN PlusInfinity ELSE Finite(x.n + k)

\* x <= y
JsAtMost(x, y) ==
    IF y.inf THEN TRUE
    ELSE IF x.inf THEN FALSE
    ELSE x.n <= y.n

\* Math.floor(Date.now() / 1000 / period): Date.now() is above 0.
JsCurrentCounter(nowMs, period) ==
    IF period = 0 THEN PlusInfinity ELSE Finite(CurrentCounter(nowMs, period))

\* The number whose 8 bytes numberToBuf gives for x: bit operations take
\* Infinity as 0, so every byte of numberToBuf(Infinity) is 0.
CounterNumber(x) == IF x.inf THEN 0 ELSE x.n

\* The periods of the calls: the usual one, 0 and one below 0.
LoopPeriods == {30, 0, -30}

LoopParams == {OTPParams("SHA1", 6, period, Base32Secret) : period \in LoopPeriods}

\* The counters a call with p asks a token for.
LoopCounters(p) == IF p.period = 0 THEN {0} ELSE Counters(p)

LoopMessages(p) ==
    {<<SecretKey(p.secret).bytes, numberToBuf(c)>> : c \in LoopCounters(p)}

\* The loop is followed for this many candidates, more than any window of
\* the model asks for.
MaxCandidates == 2 * MaxWindow + 4

InitVerifyLoop ==
    /\ params \in LoopParams
    /\ hmac \in {[m \in LoopMessages(params) |->
                    AllSamples[((m[2][8] + r) % Len(AllSamples)) + 1]] :
                  r \in {0, Len(AllSamples) \div 2}}
    /\ IdleEngine
    /\ IdleCodec
    /\ IdleHelpers

\* The strings the calls are given: the token of the first counter of the
\* window, a string that is nobody's token, the empty string.
LoopTokens(p, first) ==
    LET mine == generateOwnOTP(CounterNumber(first), p).token
    IN {mine, [k \in 1..p.digits |-> KelvinSign], <<>>}

\* verifyOwnTOTP is called: the length check, the counter, let i.
VerifyStarts ==
    /\ util = NoUtil
    /\ \E window \in 0..MaxWindow :
         \E counter \in {JsCurrentCounter(now, params.period)} :
           \E otp \in LoopTokens(params, JsPlus(counter, -window)) :
             util' = [op |-> "verifyOwnTOTP", otp |-> otp, window |-> window,
                      counter |-> counter, i |-> JsPlus(counter, -window),
                      candidates |-> 0,
                      pc |-> IF Len(otp) # params.digits THEN "returned" ELSE "loop",
                      valid |-> FALSE, thrown |-> ""]
    /\ UNCHANGED <<otpVars, codecVars, jwt, webVars>>

\* The test of the loop and, when it holds, one turn of the loop.
LoopIteration ==
    /\ util # NoUtil
    /\ util.op = "verifyOwnTOTP"
    /\ util.pc = "loop"
    /\ util.candidates < MaxCandidates
    /\ util' = IF ~JsAtMost(util.i, JsPlus(util.counter, util.window))
               THEN [util EXCEPT !.pc = "returned"]
               ELSE LET generated == generateOwnOTP(CounterNumber(util.i), params)
                    IN IF ~generated.ok
                       THEN [util EXCEPT !.pc = "returned", !.thrown = generated.error]
                       ELSE IF timingSafeStringCompare(util.otp, generated.token)
                       THEN [util EXCEPT !.pc = "returned", !.valid = TRUE,
                                         !.candidates = @ + 1]
                       ELSE [util EXCEPT !.candidates = @ + 1, !.i = JsPlus(@, 1)]
    /\ UNCHANGED <<otpVars, codecVars, jwt, webVars>>

NextVerifyLoop == VerifyStarts \/ LoopIteration \/ Tick

SpecVerifyLoop == InitVerifyLoop /\ [][NextVerifyLoop]_vars

SpecRedis == InitHelpers /\ [][NextRedis]_vars

SpecServer == InitHelpers /\ [][NextServer]_vars

NextHttp ==
    \/ ControllerCall
    \/ CallbackSettles
    \/ HasJwtCall
    \/ JwtVerified
    \/ TokenValidatedSettles
    \/ RequestArrives
    \/ MiddlewareRuns
    \/ ErrorMiddlewareRuns

SpecHttp == InitHelpers /\ [][NextHttp]_vars

----------------------------------------------------------------------------
(* What RFC 4226 asks of a digest, in arithmetic.                          *)

\* The four bytes at the offset named by the low nibble of the last byte,
\* high byte first, the top bit of the first one cleared.
RefBinary(digest) ==
    LET off == digest[Len(digest)] % 16
    IN (digest[off + 1] % 128) * 16777216 + digest[off + 2] * 65536
           + digest[off + 3] * 256 + digest[off + 4]

\* x mod 10^d and x < 10^d for 0 <= x < 2^31 (10^10 is above 2^31).
ModPow10(x, d) == IF d >= 10 THEN x ELSE x % (10 ^ d)

BelowPow10(x, d) == d >= 10 \/ x < 10 ^ d

\* The token of a counter under the behaviour's parameters and HMAC, from
\* the digest of the counter's 8 bytes under the secret's own bytes.
RefToken(counter) ==
    LET digest == MakeDigest(DigestLength(params.algorithm),
                             hmac[<<BufferFrom(params.secret), numberToBuf(counter)>>])
    IN pad(ModPow10(RefBinary(digest), params.digits), params.digits)

\* floor(nowSeconds / period) at the latest call.
ClaimCounter == (last.at \div 1000) \div params.period

IsGenerate == last.op = "generateOwnOTP"
IsVerify == last.op = "verifyOwnTOTP"

----------------------------------------------------------------------------
(* The claims.                                                             *)

\* C1: verifyOwnTOTP(t, w, params) returns true if and only if t is the
\* token generateOwnOTP returns for some counter c + i with i in -w..w,
\* c = floor(nowSeconds / period); it returns a boolean either way.
C1_VerifyIffTokenInWindow ==
    IsVerify =>
        /\ last.ok
        /\ last.valid <=>
               \E i \in (-last.window)..last.window :
                   last.otp = generateOwnOTP(ClaimCounter + i, params).token

\* A call with a window of 1 or more that accepts the token of the last
\* counter of the window, which is the token of no earlier counter.
C1_Witness ==
    /\ IsVerify /\ last.valid /\ last.window >= 1
    /\ last.otp = TokenOf(ClaimCounter + last.window)
    /\ \A i \in (-last.window)..(last.window - 1) : last.otp # TokenOf(ClaimCounter + i)

\* C2 as stated: with window = 0 the tokens generated for the counters c - 1
\* and c + 1 are rejected.
C2_AdjacentTokensRejected ==
    (IsVerify /\ last.window = 0
        /\ last.otp \in {TokenOf(ClaimCounter - 1), TokenOf(ClaimCounter + 1)})
        => ~last.valid

\* C2 as amended: with window = 0 verifyOwnTOTP returns true exactly for the
\* token of the current counter c, so that the token generated for c - 1 or
\* c + 1 is rejected whenever it differs from the token of c.
C2_OnlyCurrentCounter ==
    (IsVerify /\ last.window = 0) =>
        /\ last.ok
        /\ last.valid <=> (last.otp = TokenOf(ClaimCounter))
        /\ \A j \in {ClaimCounter - 1, ClaimCounter + 1} :
               (last.otp = TokenOf(j) /\ TokenOf(j) # TokenOf(ClaimCounter)) => ~last.valid

\* A call with window = 0 that rejects the token of counter c + 1.
C2_Witness ==
    /\ IsVerify /\ last.window = 0 /\ ~last.valid
    /\ last.otp = TokenOf(ClaimCounter + 1)
    /\ last.tried = <<ClaimCounter>>

\* C3 as stated: with a secret that holds a character outside the Base32
\* alphabet, generateOwnOTP raises an error and returns no token.
C3_MalformedSecretRaises ==
    (IsGenerate /\ \E i \in DOMAIN params.secret : params.secret[i] \notin AlphabetSet)
        => (~last.ok /\ last.token = <<>>)

\* C4 as stated: parameters with an unsupported algorithm, a period of 0 or
\* less or a digit count outside 6..10 make generateOwnOTP and verifyOwnTOTP
\* raise a configuration error: no token and no boolean is returned.
C4_InvalidParamsRejected ==
    ((IsGenerate \/ IsVerify) /\ ~ValidParams(params))
        => (~last.ok /\ last.error = "ConfigurationError")

\* C5: for digits in 6..10 and every supported algorithm, the token of
\* generateOwnOTP is a string of exactly `digits` decimal digits.
C5_TokenIsDigitsLong ==
    IsGenerate =>
        /\ last.ok
        /\ Len(last.token) = params.digits
        /\ \A i \in DOMAIN last.token : last.token[i] \in Range(DigitChars)

\* A ten-digit token that is nine zeros and a 9.
C5_Witness ==
    /\ IsGenerate /\ params.digits = 10 /\ last.code = 9
    /\ last.token = <<"0", "0", "0", "0", "0", "0", "0", "0", "0", "9">>

\* C6: the number handed to pad is P mod 10^digits, where P is the four
\* bytes at the truncation offset, high byte first, top bit cleared; P is in
\* 0..2^31 - 1 and the number handed to pad is in 0..10^digits - 1.
C6_ReducedNumberInRange ==
    IsGenerate =>
        /\ last.binary = RefBinary(last.digest)
        /\ last.binary >= 0 /\ last.binary <= 2147483647
        /\ last.code = ModPow10(last.binary, params.digits)
        /\ last.code >= 0 /\ BelowPow10(last.code, params.digits)

\* A digest whose first truncated byte has its top bit set: 0x80 0x01 0xE2
\* 0x40 is read as 123456.
C6_Witness ==
    /\ IsGenerate /\ last.ok
    /\ last.digest[last.offset + 1] >= 128
    /\ last.binary = 123456 /\ last.code = 123456

\* C7: for SHA1, SHA256 and SHA512 (digests of 20, 32 and 64 bytes) the
\* truncation offset is the low nibble of the last digest byte and
\* offset + 3 is below the digest's length.
C7_OffsetInsideDigest ==
    IsGenerate =>
        /\ Len(last.digest) \in {20, 32, 64}
        /\ last.offset = last.digest[Len(last.digest)] % 16
        /\ last.offset + 3 < Len(last.digest)

\* A SHA1 digest with the largest offset, 15, and a last byte above 15.
C7_Witness ==
    /\ IsGenerate /\ params.algorithm = "SHA1"
    /\ last.offset = 15 /\ last.digest[20] > 15

\* C8: whatever calls came before, a generateOwnOTP call returns the token
\* that its counter and parameters alone determine, the token of the
\* generateOwnOTP call before it when that had the same counter, and no
\* call changes what the next one reads.
C8_GenerateIsPure ==
    [][(last'.op = "generateOwnOTP") =>
          /\ last'.ok
          /\ last'.token = RefToken(last'.counter)
          /\ (IsGenerate /\ last.counter = last'.counter) => last'.token = last.token
          /\ params' = params /\ hmac' = hmac]_vars

\* A generateOwnOTP call made after the clock moved, for a counter that is
\* not the clock's.
C8_Witness ==
    /\ IsGenerate /\ last.ok /\ last.at > StartMs
    /\ last.counter # ClaimCounter
    /\ last.token # TokenOf(ClaimCounter)

\* C9: b32ToBuf(b32FromBuf(b)) is b, for every buffer b of 0..MaxBytes bytes.
C9_RoundTrip ==
    decoded # NoBytes => (decoded.ok /\ decoded.bytes = buf)

\* A buffer of the largest length, encoded with padding and decoded.
C9_Witness ==
    /\ decoded.ok /\ Len(buf) = MaxBytes /\ decoded.bytes = buf
    /\ encoded # StripPadding(encoded)

\* C10: b32ToBuf returns the same bytes for a canonical padded string and
\* for that string without its trailing padding.
C10_PaddingOptional ==
    (decoded # NoBytes /\ decodedBare # NoBytes) =>
        (decoded.ok /\ decodedBare = decoded)

\* A padded string decoded both ways, to two bytes.
C10_Witness ==
    /\ decoded.ok /\ decodedBare.ok
    /\ encoded # StripPadding(encoded)
    /\ Len(decodedBare.bytes) = 2

IsCall(op) == util.op = op

\* The characters of str are all ASCII.
IsAscii(str) ==
    \A i \in DOMAIN str :
        str[i] \notin {KelvinSign, SmallEAcute, CombiningAcute, LoneSurrogate,
                       ReplacementChar}

\* str holds a character outside A-Z, 2-7 that is not part of the run of
\* "=" at its end.
HasInvalidCharacter(str) ==
    \E i \in DOMAIN str :
        /\ str[i] \notin (Range(UpperChars) \cup {"2", "3", "4", "5", "6", "7"})
        /\ \E j \in i..Len(str) : str[j] # "="

\* C11: b32ToBuf throws TypeError 'b32ToBuf: Invalid character found' for
\* every string with a character outside the Base32 alphabet (the padding
\* at the end aside) and returns no bytes then; it throws for no other string.
C11_InvalidCharacterThrows ==
    IsCall("b32ToBuf") =>
        IF HasInvalidCharacter(util.str)
        THEN /\ ~util.result.ok
             /\ util.result.error = "TypeError: b32ToBuf: Invalid character found"
             /\ util.result.bytes = <<>>
        ELSE util.result.ok

\* A string with valid characters before and after an invalid one.
C11_Witness ==
    /\ IsCall("b32ToBuf") /\ util.str = <<"A", "1", "7">>
    /\ ~util.result.ok

\* C12: b32FromBuf(b) is characters of A-Z, 2-7 followed by zero or more
\* "=", as long as a multiple of 8, and empty when b is empty.
C12_EncodedShape ==
    IsCall("b32FromBuf") =>
        LET str == util.result
        IN /\ \E n \in 0..Len(str) :
                  /\ \A i \in 1..n : str[i] \in Range(UpperChars) \cup {"2", "3", "4", "5", "6", "7"}
                  /\ \A i \in (n + 1)..Len(str) : str[i] = "="
                  /\ n = (8 * Len(util.bytes) + 4) \div 5
           /\ Len(str) % 8 = 0
           /\ Len(str) = 8 * ((Len(util.bytes) + 4) \div 5)
           /\ (util.bytes = <<>>) => (str = <<>>)

\* Eleven bytes: 18 characters and 6 "=", 24 in all.
C12_Witness ==
    /\ IsCall("b32FromBuf") /\ Len(util.bytes) = 11
    /\ Len(util.result) = 24 /\ util.result[18] # "=" /\ util.result[19] = "="

RECURSIVE BigEndianValue(_, _, _)
BigEndianValue(bytes, from, to) ==
    IF from > to THEN 0
    ELSE 256 * BigEndianValue(bytes, from, to - 1) + bytes[to]

\* C14: for 0 <= n <= 2^53 - 1, numberToBuf(n) is 8 bytes that are n high
\* byte first: with n = hi * 2^24 + lo, the first five bytes are hi and the
\* last three are lo.
C14_EightBytesBigEndian ==
    IsCall("numberToBuf") =>
        /\ Len(util.result) = 8
        /\ \A k \in 1..8 : util.result[k] \in 0..255
        /\ util.result[1] = 0
        /\ BigEndianValue(util.result, 2, 5) = util.n.hi
        /\ BigEndianValue(util.result, 6, 8) = util.n.lo
        /\ util.n.hi = 0 => util.small = util.result

\* Number.MAX_SAFE_INTEGER: 0, 31 and six bytes of 255.
C14_Witness ==
    /\ IsCall("numberToBuf") /\ util.n = Number(536870911, 16777215)
    /\ util.result = <<0, 31, 255, 255, 255, 255, 255, 255>>

\* encodeURIComponent(str): letters, digits and the unreserved marks stay,
\* every other character becomes the %XX of its UTF-8 bytes.
RECURSIVE EncodeURIComponentText(_)
EncodeURIComponentText(str) ==
    IF str = <<>> THEN <<>>
    ELSE (IF Head(str) \in Alphanumerics \cup {"-", "_", "!"} THEN <<Head(str)>>
          ELSE PercentEncode(Utf8Char(Head(str))))
             \o EncodeURIComponentText(Tail(str))

\* C15 as stated: the uri of generateOwnOTP is otpauth://totp/<issuer>:<label>?
\* followed by the fields secret, issuer, algorithm, digits, period in that
\* order, each value percent-encoded on its own.
C15_UriFieldsEncoded ==
    IsGenerate =>
        /\ last.ok
        /\ last.uri =
              Text("otpauth://totp/") \o EncodeURIComponentText(params.issuer)
                \o <<":">> \o EncodeURIComponentText(params.label)
                \o Text("?secret=") \o EncodeURIComponentText(params.secret)
                \o Text("&issuer=") \o EncodeURIComponentText(params.issuer)
                \o Text("&algorithm=") \o Text(params.algorithm)
                \o Text("&digits=") \o DecimalString(params.digits)
                \o Text("&period=") \o DecimalString(params.period)

\* C16 as stated: with valid OTPParams (a supported algorithm, digits in
\* 6..10, a period above 0), verifyOwnTOTP throws for no token, of any
\* length and any characters, and no window of 0 or more: it returns a
\* boolean, the one that the same arguments give at the same clock value
\* whenever the call is made.
C16_VerifyReturnsBoolean ==
    (IsVerify /\ ValidParams(params)) =>
        /\ last.ok /\ last.error = ""
        /\ last.valid \in BOOLEAN
        /\ last.valid = verifyOwnTOTP(last.otp, last.window, params, last.at).valid

\* A string without a surrogate on its own.
IsWellFormed(str) == \A i \in DOMAIN str : str[i] # LoneSurrogate

IsRoundTrip == IsCall("parseBasicAuth") /\ util.auth = createBasicAuth(util.username, util.password)

\* C17 as stated: for every user name without ":" and every password,
\* parseBasicAuth(createBasicAuth(username, password)) is { username,
\* password }.
C17_RoundTripAnyString ==
    (IsRoundTrip /\ FirstIndexOf(util.username, <<":">>) = 0)
        => /\ util.result.ok
           /\ util.result.username = util.username
           /\ util.result.password = util.password

\* C17, amended: the round trip gives back the user name and the password
\* when the user name has no ":" and neither string has a surrogate on its
\* own; and whatever the strings, the cut is at the first ":" of the
\* decoded credentials.
C17_RoundTripWellFormed ==
    IsRoundTrip =>
        /\ util.result.ok
        /\ FirstIndexOf(util.result.username, <<":">>) = 0
        /\ util.result.username \o <<":">> \o util.result.password = util.result.decoded
        /\ ( /\ FirstIndexOf(util.username, <<":">>) = 0
             /\ IsWellFormed(util.username)
             /\ IsWellFormed(util.password) )
               => /\ util.result.username = util.username
                  /\ util.result.password = util.password

\* A round trip of user:pwd with a password that has a ":" succeeded.
C17_Witness ==
    /\ IsRoundTrip
    /\ util.username = <<"u", "s", "e", "r">>
    /\ util.password = <<"p", ":", "w">>
    /\ util.auth = Text("Basic ") \o <<"d", "X", "N", "l", "c", "j", "p", "w", "O", "n", "c", "=">>
    /\ util.result.ok
    /\ util.result.password = util.password

InternalServerErrorOfSpec == <<"Internal server error!">>

\* C19: defaultHandleOperationalErrors gives an AppError: status 400 and
\* 'Invalid JSON! Please provide a valid one.' for a SyntaxError, 413 for
\* an error of type 'entity.too.large', 400 and the formatted message for a
\* ZodError, 500 and 'Internal server error!' for every other error.
C19_FixedClassification ==
    IsCall("defaultHandleOperationalErrors") =>
        /\ util.result.class = "AppError"
        /\ IF util.err.class = "SyntaxError"
           THEN /\ util.result.statusCode = 400
                /\ util.result.message = <<"Invalid JSON! Please provide a valid one.">>
           ELSE IF util.err.type = "entity.too.large"
           THEN util.result.statusCode = 413
           ELSE IF util.err.class = "ZodError"
           THEN /\ util.result.statusCode = 400
                /\ util.result.message = formatZodError(util.err)
           ELSE /\ util.result.statusCode = 500
                /\ util.result.message = InternalServerErrorOfSpec

\* C20: when the import of the public key or the verification of the token
\* fails, the promise of verifyEdDSAJWT rejects with an AppError of status
\* 401; the error of jose does not come out.
C20_FailureIsAppError401 ==
    (jwt.pc = "settled" /\ (jwt.importFailed \/ jwt.verifyFailed)) =>
        /\ jwt.promise.state = "rejected"
        /\ jwt.promise.reason.class = "AppError"
        /\ jwt.promise.reason.statusCode = 401

\* The counters c - window, ..., c + window of a call, in increasing order.
WindowCounters(c, window) == [k \in 1..(2 * window + 1) |-> c - window + k - 1]

IsPrefix(s, t) == Len(s) <= Len(t) /\ \A k \in DOMAIN s : s[k] = t[k]

\* C26: in one verifyOwnTOTP call the counters a token is generated for are
\* a prefix of c - window, ..., c + window: none when the length of otp is
\* not digits, up to the first counter whose token matches when the call
\* returns true, all of them when it returns false after a length match.
C26_CandidatesArePrefix ==
    (IsVerify /\ last.ok) =>
        LET all == WindowCounters(last.counter, last.window)
        IN /\ IsPrefix(last.tried, all)
           /\ (Len(last.otp) # params.digits) => last.tried = <<>>
           /\ last.valid =>
                 /\ last.tried # <<>>
                 /\ \A k \in DOMAIN last.tried :
                       timingSafeStringCompare(last.otp, TokenOf(last.tried[k]))
                           <=> (k = Len(last.tried))
           /\ (~last.valid /\ Len(last.otp) = params.digits) => last.tried = all

\* A call with window 1 matched at the first counter of the window and
\* generated no token for the two counters after it.
C26_Witness ==
    /\ IsVerify
    /\ last.window = 1
    /\ last.valid
    /\ last.tried = <<last.counter - 1>>
    /\ TokenOf(last.counter) # last.otp

\* C30: whatever the value passed as err, the error middleware sends
\* exactly one JSON response, and it calls next() exactly when err is
\* neither an AppError nor an Error; the response then has status 500.
C30_OneResponseNextIffNoError ==
    IsCall("errorHandler") =>
        /\ Len(util.result.responses) = 1
        /\ DOMAIN util.result.responses[1].body \subseteq {"status", "message", "stack"}
        /\ util.result.nextCalled <=> ~IsError(util.err)
        /\ util.result.nextCalled => util.result.responses[1].statusCode = 500

\* The middleware was called with a string: it answered 500 and called
\* next().
C30_Witness ==
    /\ IsCall("errorHandler")
    /\ util.err.class = "none"
    /\ util.err.kind = "string"
    /\ util.result.nextCalled
    /\ util.result.responses[1].statusCode = 500
    /\ util.result.responses[1].body.message = <<"Unknown error! Please try again later.">>

\* The clients constructed for a wrapper: those with its place among the
\* clients returned to it.
ClientsOf(w) == {redis.instances[w].returned[k] : k \in DOMAIN redis.instances[w].returned}

\* C25: for a Redis wrapper and any sequence of getClient calls, no client
\* is constructed before the first call, at most one client is ever
\* constructed, and every call returns that same client.
C25_OneLazyClient ==
    /\ Len(redis.clients) = Cardinality({w \in Wrappers : redis.instances[w].returned # <<>>})
    /\ \A w \in Wrappers :
          LET instance == redis.instances[w]
          IN /\ (instance.returned = <<>>) <=> ~instance.clientInstance.defined
             /\ Cardinality(ClientsOf(w)) <= 1
             /\ \A k \in DOMAIN instance.returned :
                   /\ instance.returned[k] = instance.clientInstance
                   /\ instance.returned[k] = redis.clients[instance.returned[k].id]
                   /\ instance.returned[k].options = instance.options
    /\ \A v, w \in Wrappers :
          (v # w /\ redis.instances[v].clientInstance.defined)
              => redis.instances[v].clientInstance # redis.instances[w].clientInstance

\* One wrapper was asked three times and returned one client, while another
\* wrapper was never asked and has no client.
C25_Witness ==
    \E v, w \in Wrappers :
        /\ Len(redis.instances[v].returned) = 3
        /\ Cardinality(ClientsOf(v)) = 1
        /\ redis.instances[w].returned = <<>>
        /\ Len(redis.clients) = 1

\* What the log of start() begins with when listen is reached.
StartupLog(s) ==
    (IF s.infrastructureCheck # "absent" THEN <<"infrastructureCheck", "passed">> ELSE <<>>)
        \o (IF s.extraStartupChecks # "absent" THEN <<"extraStartupChecks", "passed">> ELSE <<>>)
        \o <<"listen">>

Listened == \E k \in DOMAIN server.log : server.log[k] = "listen"

\* C23: in Server.start the app starts listening only after the
\* infrastructure check, if given, and then the extra checks, if given,
\* have completed, in that order; if a check rejects, listen is never
\* called.
C23_ListenAfterChecks ==
    /\ Listened => IsPrefix(StartupLog(server), server.log)
    /\ Cardinality({k \in DOMAIN server.log : server.log[k] = "listen"}) <= 1
    /\ server.pc = "rejected" => ~Listened
    /\ server.pc = "started" <=> (server.listening \/ server.closing \/ server.closeFired
                                   \/ (Listened /\ server.exit.called))

\* The server listens after both checks were given and passed.
C23_Witness ==
    /\ server.pc = "started"
    /\ server.infrastructureCheck = "resolves"
    /\ server.extraStartupChecks = "resolves"
    /\ server.log = <<"infrastructureCheck", "passed", "extraStartupChecks", "passed", "listen">>

\* The signals and rejections received after start() completed.
ReceivedStarted == {k \in DOMAIN server.received : server.received[k].started}

\* C24: after start() has completed, every SIGINT, SIGQUIT or SIGTERM and
\* every unhandled rejection leads to httpServer.close, and process.exit is
\* called only after the close callback has fired, with code 0 for the
\* signals and 1 for an unhandled rejection.
C24_GracefulShutdown ==
    /\ Len(server.shutdowns) = Cardinality(ReceivedStarted)
    /\ (server.exit.called /\ ReceivedStarted # {}
           /\ server.exit.cause # "uncaughtException") =>
          /\ server.closeFired
          /\ (\A k \in ReceivedStarted : server.received[k].event \in Signals)
                => server.exit.code = 0
          /\ (\A k \in ReceivedStarted : server.received[k].event = "unhandledRejection")
                => server.exit.code = 1

\* The request is in the hands of a controller.
IsController(controllers) == http.pc # "idle" /\ http.controller \in controllers

\* C21: for a request handled by promiseController exactly one of two
\* things happens: res.status(successStatusCode).json(result) is called,
\* or next is called once with an AppError. The response is sent only if
\* every schema given accepted the request, the callback resolved and the
\* response schema accepted the result; the callback is not called when the
\* request is refused (AppError 400); a callback that rejects or throws and
\* a refused result give an AppError 500.
C21_ResponseOrNext ==
    IsController({"promiseController"}) =>
        /\ Len(http.responses) + Len(http.nextCalls) <= 1
        /\ http.thrown = <<>>
        /\ http.cbCalls <= 1
        /\ http.pc = "done" => Len(http.responses) + Len(http.nextCalls) = 1
        /\ http.responses # <<>> =>
              /\ http.responses[1].statusCode = http.successStatusCode
              /\ http.responses[1].body = [shape |-> "result", value |-> http.result]
              /\ RequestErrors(http.schemas) = <<>>
              /\ http.cbCalls = 1
              /\ http.cb = "resolves"
              /\ http.schemas.response # "refuses"
        /\ \A k \in DOMAIN http.nextCalls : http.nextCalls[k].class = "AppError"
        /\ RequestErrors(http.schemas) # <<>> =>
              /\ http.cbCalls = 0
              /\ http.pc = "done"
              /\ http.nextCalls[1].statusCode = 400
        /\ ( /\ RequestErrors(http.schemas) = <<>>
             /\ http.pc = "done"
             /\ http.cb # "resolves" \/ http.schemas.response = "refuses" ) =>
              /\ http.responses = <<>>
              /\ http.nextCalls[1].statusCode = 500

\* promiseController sent the result of the callback with status 201 after
\* four schemas accepted.
C21_Witness ==
    /\ IsController({"promiseController"})
    /\ http.pc = "done"
    /\ http.schemas = [params |-> "accepts", body |-> "accepts", query |-> "accepts",
                       response |-> "accepts"]
    /\ http.cbCalls = 1
    /\ Len(http.responses) = 1
    /\ http.responses[1].statusCode = 201
    /\ http.nextCalls = <<>>

\* C22: when the callback given to resultAsyncController throws instead of
\* returning a ResultAsync, the handler does not let the exception out: it
\* calls next with an AppError and sends no response.
C22_SyncThrowGoesToNext ==
    ( /\ IsController({"resultAsyncController", "resultAsyncController try"})
      /\ http.cb = "throws"
      /\ http.cbCalls = 1 ) =>
        /\ http.thrown = <<>>
        /\ Len(http.nextCalls) = 1
        /\ http.nextCalls[1].class = "AppError"
        /\ http.responses = <<>>

\* C28: for a request handled by hasJWT next is called exactly once: with
\* an AppError 401 when the token is missing, when it is invalid or fails
\* verification, or when the payload has no jti; without an argument only
\* after the token was there, verifyEdDSAJWT succeeded, the payload has a
\* jti and onTokenValidated, if given, completed. Verification is not
\* attempted when the token is missing.
C28_NextExactlyOnce ==
    IsController({"hasJWT"}) =>
        /\ Len(http.nextCalls) <= 1
        /\ NoToken(http.header) => http.verifyCalls = 0
        /\ http.pc = "done" =>
              /\ Len(http.nextCalls) = 1
              /\ IF /\ ~NoToken(http.header)
                    /\ http.verified
                    /\ http.token.jti # ""
                    /\ http.onTokenValidated # "rejects"
                 THEN /\ http.nextCalls[1] = NoArgument
                      /\ http.onTokenValidated = "resolves" => http.validatedCalls = 1
                 ELSE /\ http.nextCalls[1].class = "AppError"
                      /\ http.nextCalls[1].statusCode = 401

\* The stages the request has reached include `name`.
Reached(name) == \E i \in 1..Len(http.reached) : http.reached[i] = name

\* C29: in an application built by the Api class a request whose original
\* URL contains 'favicon.ico' is answered 204 by the favicon middleware,
\* whatever its headers and its method: it reaches no route handler, not
\* the 404 catch-all and not the error handler.
C29_FaviconAnswered204 ==
    (IsController({"Api"}) /\ http.req.favicon) =>
        /\ ~Reached("handlers")
        /\ ~Reached("notFound")
        /\ ~Reached("errorHandler")
        /\ http.pc = "done" =>
              /\ Reached("favicon")
              /\ Len(http.responses) = 1
              /\ http.responses[1].statusCode = 204

\* C27: for every window (an integer, 0 or more) and every OTPParams with
\* which verifyOwnTOTP starts its loop, whatever the period and the current
\* counter derived from it, the call generates at most 2 * window + 1
\* candidate tokens.
C27_AtMostWindowCandidates ==
    (util # NoUtil /\ util.op = "verifyOwnTOTP") =>
        util.candidates <= 2 * util.window + 1

====
